---- MODULE Spec2Model ----
(***************************************************************************)
(* A model of the Cucumber step registry and matching engine               *)
(* (StepsHandler).  Two implementations of the handler live in the         *)
(* repository: src/gserver/src/steps.handler.ts ("gserver") and            *)
(* src/unnamed/part_001 ("unnamed", which adds the JSON record mode).      *)
(*                                                                         *)
(* Strings are sequences of one-character strings; a document is the       *)
(* sequence of its lines (text.split(/\r?\n/g)).  Regular expressions are  *)
(* kept as their source text and interpreted by RegExpTest.                *)
(***************************************************************************)
EXTENDS Integers, Sequences, FiniteSets, TLC

(***************************************************************************)
(* Characters                                                              *)
(***************************************************************************)
LowerSeq ==
    << "a", "b", "c", "d", "e", "f", "g", "h", "i", "j", "k", "l", "m",
       "n", "o", "p", "q", "r", "s", "t", "u", "v", "w", "x", "y", "z" >>

UpperSeq ==
    << "A", "B", "C", "D", "E", "F", "G", "H", "I", "J", "K", "L", "M",
       "N", "O", "P", "Q", "R", "S", "T", "U", "V", "W", "X", "Y", "Z" >>

DigitSeq == << "0", "1", "2", "3", "4", "5", "6", "7", "8", "9" >>

Range(f) == { f[k] : k \in DOMAIN f }

LowerCase == Range(LowerSeq)

UpperCase == Range(UpperSeq)

Letters == LowerCase \cup UpperCase

\* \d
Digits == Range(DigitSeq)

\* \w
WordChars == Letters \cup Digits \cup {"_"}

\* \s (a line holds no line terminator)
WhiteSpace == {" ", "\t"}

\* The characters in the order of their character codes (the ASCII part
\* that the model's strings use; the backquote cannot be written in a
\* TLA+ string and is left out); JavaScript compares strings by code unit.
CodeOrder ==
    << "\t", " ", "!", "\"", "#", "$", "%", "&", "'", "(", ")", "*", "+", ",",
       "-", ".", "/" >> \o DigitSeq \o << ":", ";", "<", "=", ">", "?", "@" >>
    \o UpperSeq \o << "[", "\\", "]", "^", "_" >> \o LowerSeq
    \o << "{", "|", "}", "~" >>

CharCode(c) == CHOOSE k \in DOMAIN CodeOrder : CodeOrder[k] = c

\* String.prototype.toLowerCase, one character
ToLowerChar(c) ==
    IF c \in UpperCase
    THEN LowerSeq[CHOOSE k \in DOMAIN UpperSeq : UpperSeq[k] = c]
    ELSE c

toLowerCase(s) == [k \in DOMAIN s |-> ToLowerChar(s[k])]

(***************************************************************************)
(* String helpers                                                          *)
(***************************************************************************)
\* s.substring(i - 1, j - 1): the characters i .. j-1 (1-based)
Sub(s, i, j) == IF j <= i THEN << >> ELSE SubSeq(s, i, j - 1)

\* s.startsWith(p, i - 1)
StartsAt(s, p, i) ==
    /\ i + Len(p) - 1 <= Len(s)
    /\ \A k \in 1..Len(p) : s[i + k - 1] = p[k]

\* s.indexOf(p) + 1, and 0 when p does not occur in s
IndexOf(s, p) ==
    IF \E i \in 1..(Len(s) + 1) : StartsAt(s, p, i)
    THEN CHOOSE i \in 1..(Len(s) + 1) :
            /\ StartsAt(s, p, i)
            /\ \A j \in 1..(i - 1) : ~StartsAt(s, p, j)
    ELSE 0

RECURSIVE ExpandReplacement(_, _, _, _)
\* the text a replacement string stands for, from character k on: "$$" is
\* "$", "$&" the matched text and "$'" the text after the match; every
\* other character is itself ("$" before a backquote, the text before the
\* match, cannot occur in the model's strings)
ExpandReplacement(r, k, matched, after) ==
    IF k > Len(r) THEN << >>
    ELSE IF r[k] = "$" /\ k < Len(r) /\ r[k + 1] \in {"$", "&", "'"}
    THEN (CASE r[k + 1] = "$" -> <<"$">>
            [] r[k + 1] = "&" -> matched
            [] OTHER -> after)
         \o ExpandReplacement(r, k + 2, matched, after)
    ELSE << r[k] >> \o ExpandReplacement(r, k + 1, matched, after)

\* s.replace(p, r) with a string pattern: the first occurrence only, the
\* replacement string expanded
ReplaceFirst(s, p, r) ==
    LET i == IndexOf(s, p)
    IN IF i = 0 THEN s
       ELSE Sub(s, 1, i)
            \o ExpandReplacement(r, 1, p, Sub(s, i + Len(p), Len(s) + 1))
            \o Sub(s, i + Len(p), Len(s) + 1)

RECURSIVE ReplaceAll(_, _, _)
\* s.split(p).join(r) for a non-empty p: every occurrence, left to right
ReplaceAll(s, p, r) ==
    LET i == IndexOf(s, p)
    IN IF i = 0 \/ Len(p) = 0 THEN s
       ELSE Sub(s, 1, i) \o r
            \o ReplaceAll(Sub(s, i + Len(p), Len(s) + 1), p, r)

RECURSIVE Join(_, _)
\* parts.join(sep)
Join(parts, sep) ==
    IF Len(parts) = 0 THEN << >>
    ELSE IF Len(parts) = 1 THEN parts[1]
    ELSE parts[1] \o sep \o Join(Tail(parts), sep)

\* the end (exclusive) of the longest run of characters of set cs from i
RECURSIVE RunEnd(_, _, _)
RunEnd(s, i, cs) ==
    IF i <= Len(s) /\ s[i] \in cs THEN RunEnd(s, i + 1, cs) ELSE i

\* the start of the longest run of characters of set cs that ends at the
\* end of s
RECURSIVE RunStart(_, _, _)
RunStart(s, i, cs) ==
    IF i >= 1 /\ s[i] \in cs THEN RunStart(s, i - 1, cs) ELSE i + 1

\* lexicographic comparison by character code: a < b
RECURSIVE StrLess(_, _)
StrLess(a, b) ==
    IF Len(b) = 0 THEN FALSE
    ELSE IF Len(a) = 0 THEN TRUE
    ELSE IF a[1] = b[1] THEN StrLess(Tail(a), Tail(b))
    ELSE CharCode(a[1]) < CharCode(b[1])

(***************************************************************************)
(* Regular expressions: new RegExp(source) and RegExp.prototype.test.      *)
(* The interpreter covers the constructs the compiled step patterns use:   *)
(* literals, escapes (\d \s \w and escaped symbols), ".", character        *)
(* classes, groups with alternatives, the quantifiers * + ? (lazy or not), *)
(* and the anchors ^ and $.  A brace is read as a literal character and a  *)
(* back reference matches the empty string; the patterns of the model use  *)
(* neither a counted quantifier nor a back reference.                      *)
(***************************************************************************)
Quantifiers == {"*", "+", "?"}

ParseFail == [ok |-> FALSE, alts |-> << >>, i |-> 0]

\* the characters with codes between those of a and b
CharRange(a, b) ==
    { CodeOrder[k] : k \in { n \in DOMAIN CodeOrder :
                               CharCode(a) <= n /\ n <= CharCode(b) } }

\* the characters an escape \e stands for inside a class
ClassEscape(e) ==
    CASE e = "d" -> Digits
      [] e = "s" -> WhiteSpace
      [] e = "w" -> WordChars
      [] e \in Digits -> {}
      [] OTHER -> {e}

RECURSIVE ParseClassItems(_, _, _)
\* the items of a character class from position j up to its "]"
ParseClassItems(src, j, cs) ==
    IF j > Len(src) THEN [ok |-> FALSE, cs |-> {}, i |-> 0]
    ELSE IF src[j] = "]" THEN [ok |-> TRUE, cs |-> cs, i |-> j + 1]
    ELSE IF src[j] = "\\"
    THEN IF j + 1 > Len(src) THEN [ok |-> FALSE, cs |-> {}, i |-> 0]
         ELSE ParseClassItems(src, j + 2, cs \cup ClassEscape(src[j + 1]))
    ELSE IF j + 2 <= Len(src) /\ src[j + 1] = "-" /\ src[j + 2] # "]"
    THEN ParseClassItems(src, j + 3, cs \cup CharRange(src[j], src[j + 2]))
    ELSE ParseClassItems(src, j + 1, cs \cup {src[j]})

\* a character class; i is the position after its "["
ParseClass(src, i) ==
    LET neg == i <= Len(src) /\ src[i] = "^"
        Class(r) ==
            [ok |-> r.ok, node |-> [t |-> "set", neg |-> neg, cs |-> r.cs],
             i |-> r.i]
    IN Class(ParseClassItems(src, IF neg THEN i + 1 ELSE i, {}))

\* an escape; i is the position after its backslash
ParseEscape(src, i) ==
    IF i > Len(src) THEN [ok |-> FALSE, node |-> [t |-> "any"], i |-> 0]
    ELSE LET e == src[i]
             node ==
               CASE e = "d" -> [t |-> "set", neg |-> FALSE, cs |-> Digits]
                 [] e = "D" -> [t |-> "set", neg |-> TRUE, cs |-> Digits]
                 [] e = "s" -> [t |-> "set", neg |-> FALSE, cs |-> WhiteSpace]
                 [] e = "S" -> [t |-> "set", neg |-> TRUE, cs |-> WhiteSpace]
                 [] e = "w" -> [t |-> "set", neg |-> FALSE, cs |-> WordChars]
                 [] e = "W" -> [t |-> "set", neg |-> TRUE, cs |-> WordChars]
                 [] e \in Digits \ {"0"} -> [t |-> "bref"]
                 [] OTHER -> [t |-> "chr", c |-> e]
         IN [ok |-> TRUE, node |-> node, i |-> i + 1]

\* an optional quantifier at position i, with its optional lazy mark
ParseQuantifier(src, i) ==
    IF i <= Len(src) /\ src[i] \in Quantifiers
    THEN [q |-> src[i],
          i |-> IF i + 1 <= Len(src) /\ src[i + 1] = "?" THEN i + 2 ELSE i + 1]
    ELSE [q |-> "", i |-> i]

Quantify(node, q) == IF q = "" THEN node ELSE [t |-> "rep", q |-> q, n |-> node]

RECURSIVE ParseAlts(_, _, _, _, _)
RECURSIVE ParseAtom(_, _)
\* one atom at position i
ParseAtom(src, i) ==
    LET c == src[i]
    IN CASE c = "(" ->
              LET Group(r) ==
                      [ok |-> r.ok, node |-> [t |-> "alt", alts |-> r.alts],
                       i |-> r.i]
              IN Group(ParseAlts(
                     src,
                     IF StartsAt(src, <<"?", ":">>, i + 1) THEN i + 3 ELSE i + 1,
                     << >>, << >>, TRUE))
         [] c = "[" -> ParseClass(src, i + 1)
         [] c = "\\" -> ParseEscape(src, i + 1)
         [] c = "." -> [ok |-> TRUE, node |-> [t |-> "any"], i |-> i + 1]
         [] c = "^" -> [ok |-> TRUE, node |-> [t |-> "bol"], i |-> i + 1]
         [] c = "$" -> [ok |-> TRUE, node |-> [t |-> "eol"], i |-> i + 1]
         [] OTHER -> [ok |-> TRUE, node |-> [t |-> "chr", c |-> c], i |-> i + 1]

\* the alternatives from position i to the end of the pattern or, inside a
\* group, to its ")".  Not ok: an unterminated group or class, an unmatched
\* ")", a quantifier with nothing to repeat, a trailing backslash.
ParseAlts(src, i, alts, cur, inGroup) ==
    IF i > Len(src)
    THEN [ok |-> ~inGroup, alts |-> Append(alts, cur), i |-> i]
    ELSE LET c == src[i]
         IN CASE c = ")" ->
                   [ok |-> inGroup, alts |-> Append(alts, cur), i |-> i + 1]
              [] c = "|" ->
                   ParseAlts(src, i + 1, Append(alts, cur), << >>, inGroup)
              [] c \in Quantifiers -> ParseFail
              [] OTHER ->
                   LET Quantified(a, q) ==
                           IF q.q # "" /\ a.node.t \in {"bol", "eol"}
                           THEN ParseFail
                           ELSE ParseAlts(src, q.i, alts,
                                          Append(cur, Quantify(a.node, q.q)),
                                          inGroup)
                       Atom(a) ==
                           IF ~a.ok THEN ParseFail
                           ELSE Quantified(a, ParseQuantifier(src, a.i))
                   IN Atom(ParseAtom(src, i))

\* new RegExp(source): ok is FALSE where the constructor throws.  The
\* object has no flags, and its lastIndex starts at 0.
NewRegExp(source) ==
    LET Compiled(r) ==
            [ok |-> r.ok, source |-> source,
             node |-> [t |-> "alt", alts |-> r.alts],
             flags |-> {}, lastIndex |-> 0]
    IN Compiled(ParseAlts(source, 1, << >>, << >>, FALSE))

RECURSIVE MatchNode(_, _, _)
RECURSIVE MatchSeq(_, _, _)
RECURSIVE MatchStar(_, _, _)
\* the positions a match of the nodes in sequence can end at when it
\* starts at one of the positions I
MatchSeq(nodes, s, I) ==
    IF Len(nodes) = 0 \/ I = {} THEN I
    ELSE MatchSeq(Tail(nodes), s, MatchNode(nodes[1], s, I))

MatchStar(node, s, I) ==
    LET J == I \cup MatchNode(node, s, I)
    IN IF J = I THEN I ELSE MatchStar(node, s, J)

MatchNode(node, s, I) ==
    CASE node.t = "chr" ->
           { i + 1 : i \in { j \in I : j <= Len(s) /\ s[j] = node.c } }
      [] node.t = "any" ->
           { i + 1 : i \in { j \in I : j <= Len(s) } }
      [] node.t = "set" ->
           { i + 1 : i \in { j \in I : j <= Len(s)
                                       /\ ((s[j] \in node.cs) # node.neg) } }
      [] node.t = "bol" -> I \cap {1}
      [] node.t = "eol" -> I \cap {Len(s) + 1}
      [] node.t = "bref" -> I
      [] node.t = "alt" ->
           UNION { MatchSeq(node.alts[k], s, I) : k \in DOMAIN node.alts }
      [] node.t = "rep" ->
           CASE node.q = "?" -> I \cup MatchNode(node.n, s, I)
             [] node.q = "*" -> MatchStar(node.n, s, I)
             [] node.q = "+" -> MatchStar(node.n, s, MatchNode(node.n, s, I))

\* the positions (1-based) a match of reg.test(s) may start at: anywhere,
\* and with the flag g or y not before lastIndex
TestStarts(reg, s) ==
    IF reg.flags \cap {"g", "y"} = {} THEN 1..(Len(s) + 1)
    ELSE (reg.lastIndex + 1)..(Len(s) + 1)

\* reg.test(s)
RegExpTest(reg, s) == MatchNode(reg.node, s, TestStarts(reg, s)) # {}

\* the RegExp object after reg.test(s): without the flag g or y it is as
\* before; with it lastIndex moves to the end of the match, or to 0
RegExpAfterTest(reg, s) ==
    IF reg.flags \cap {"g", "y"} = {} THEN reg
    ELSE LET Ends(E) ==
                 [reg EXCEPT !.lastIndex =
                     (CHOOSE e \in E : \A f \in E : e <= f) - 1]
             Starts(S) ==
                 IF S = {} THEN [reg EXCEPT !.lastIndex = 0]
                 ELSE Ends(MatchNode(reg.node, s,
                                     {CHOOSE x \in S : \A y \in S : x <= y}))
         IN Starts({ i \in TestStarts(reg, s) :
                       MatchNode(reg.node, s, {i}) # {} })

(***************************************************************************)
(* The program's state                                                     *)
(***************************************************************************)
VARIABLES
    impl,               \* which handler source runs: "gserver" or "unnamed"
    settings,           \* this.settings
    elements,           \* this.elements: the indexed steps, in index order
    elementsHash,       \* this.elementsHash: the ids present
    elemenstCountHash,  \* this.elemenstCountHash: id -> count
    call,               \* the last operation called, with its arguments
    ret,                \* what that operation returned
    pass,               \* the setElementsHash call on the stack, if any
    scan                \* the scanAndGenerateStepsJson run of the client

vars ==
    << impl, settings, elements, elementsHash, elemenstCountHash, call, ret,
       pass, scan >>

\* null, as a returned value
Null == [null |-> TRUE]

\* an argument left out
Undefined == "undefined"

(***************************************************************************)
(* Gherkin keywords (gherkin.ts)                                           *)
(***************************************************************************)
\* the canonical keywords, in the order of the alternation allGherkinWords
allGherkinWords ==
    << <<"G", "i", "v", "e", "n">>, <<"W", "h", "e", "n">>,
       <<"T", "h", "e", "n">>, <<"A", "n", "d">>, <<"B", "u", "t">> >>

\* GherkinType
GherkinTypes == {"Given", "When", "Then", "And", "But", "Other"}

GherkinTypeOf == << "Given", "When", "Then", "And", "But" >>

\* classify: case-insensitive lookup in the canonical keyword set
getGherkinTypeLower(word) ==
    LET w == toLowerCase(word)
        K == { k \in DOMAIN allGherkinWords : toLowerCase(allGherkinWords[k]) = w }
    IN IF K = {} THEN "Other" ELSE GherkinTypeOf[CHOOSE k \in K : TRUE]

getGherkinType(word) == getGherkinTypeLower(word)

(***************************************************************************)
(* The Gherkin shape of a line                                             *)
(***************************************************************************)
NoMatch == [ok |-> FALSE, m1 |-> << >>, m2 |-> << >>, m3 |-> << >>, m4 |-> << >>]

\* line.match(getGherkinRegEx()), the pattern ^(\s*)(keywords)(\s+)(.*).
\* \s* takes the leading white space (no keyword starts with white space),
\* the keyword is the first alternative that \s+ can follow, \s+ takes the
\* white space after it and .* the rest of the line.
getGherkinRegExMatch(line) ==
    LET Groups(p, q, r, word) ==
            [ok |-> TRUE,
             m1 |-> Sub(line, 1, p),
             m2 |-> word,
             m3 |-> Sub(line, q, r),
             m4 |-> Sub(line, r, Len(line) + 1)]
        Keyword(p, k) ==
            Groups(p, p + Len(allGherkinWords[k]),
                   RunEnd(line, p + Len(allGherkinWords[k]), WhiteSpace),
                   allGherkinWords[k])
        Keywords(p, K) ==
            IF K = {} THEN NoMatch
            ELSE Keyword(p, CHOOSE x \in K : \A y \in K : x <= y)
        From(p) ==
            Keywords(p, { k \in DOMAIN allGherkinWords :
                            /\ StartsAt(line, allGherkinWords[k], p)
                            /\ p + Len(allGherkinWords[k]) <= Len(line)
                            /\ line[p + Len(allGherkinWords[k])] \in WhiteSpace })
    IN From(RunEnd(line, 1, WhiteSpace))

\* the first position >= i of character c in s, and 0 when there is none
IndexOfChar(s, c, i) ==
    IF \E j \in i..Len(s) : s[j] = c
    THEN CHOOSE j \in i..Len(s) : s[j] = c /\ \A k \in i..(j - 1) : s[k] # c
    ELSE 0

RECURSIVE OutlineMatchFrom(_, _)
\* line.match(/<.*?>/g) from position i on: each match runs from a "<" to
\* the nearest ">" after it; the search goes on after the match
OutlineMatchFrom(line, i) ==
    LET a == IndexOfChar(line, "<", i)
        b == IF a = 0 THEN 0 ELSE IndexOfChar(line, ">", a + 1)
    IN IF a = 0 \/ b = 0 THEN << >>
       ELSE << Sub(line, a, b + 1) >> \o OutlineMatchFrom(line, b + 1)

\* s.replace(/<|>/g, '')
StripAngles(s) == SelectSeq(s, LAMBDA c : c \notin {"<", ">"})

RECURSIVE SplitCells(_)
\* s.split(/\s*\|\s*/): a separator is a "|" with the white space around it
SplitCells(s) ==
    LET p == IndexOfChar(s, "|", 1)
    IN IF p = 0 THEN << s >>
       ELSE << Sub(s, 1, RunStart(s, p - 1, WhiteSpace)) >>
            \o SplitCells(Sub(s, RunEnd(s, p + 1, WhiteSpace), Len(s) + 1))

\* cells.slice(1, -1)
Slice1(cells) == IF Len(cells) < 2 THEN << >> ELSE SubSeq(cells, 2, Len(cells) - 1)

ExamplesWord == <<"E", "x", "a", "m", "p", "l", "e", "s", ":">>

\* a.match(/^\s*Examples:\s*$/)
IsExamplesLine(a) ==
    LET p == RunEnd(a, 1, WhiteSpace)
    IN /\ StartsAt(a, ExamplesWord, p)
       /\ RunEnd(a, p + Len(ExamplesWord), WhiteSpace) = Len(a) + 1

\* res with res[names[k]] = values[k] for each k with a non-empty values[k]
RECURSIVE AssignVars(_, _, _, _)
AssignVars(res, names, values, k) ==
    IF k > Len(names) THEN res
    ELSE IF k <= Len(values) /\ Len(values[k]) > 0
    THEN AssignVars([n \in DOMAIN res \cup {names[k]} |->
                        IF n = names[k] THEN values[k] ELSE res[n]],
                    names, values, k + 1)
    ELSE AssignVars(res, names, values, k + 1)

RECURSIVE OutlineVarsFrom(_, _, _)
OutlineVarsFrom(arr, i, res) ==
    IF i > Len(arr) THEN res
    ELSE IF IsExamplesLine(arr[i]) /\ i + 2 <= Len(arr) /\ Len(arr[i + 2]) > 0
    THEN OutlineVarsFrom(arr, i + 1,
            AssignVars(res, Slice1(SplitCells(arr[i + 1])),
                       Slice1(SplitCells(arr[i + 2])), 1))
    ELSE OutlineVarsFrom(arr, i + 1, res)

\* getOutlineVars(text): name -> value, from every Examples: table of the
\* document in line order, a later table overwriting an earlier one
getOutlineVars(document) == OutlineVarsFrom(document, 1, << >>)

RECURSIVE SubstituteOutline(_, _, _, _, _)
\* the reduce over the outline keys: the first "<key>" of the line becomes
\* the value of the key, between quotes q
SubstituteOutline(resLine, keys, k, outlineVars, q) ==
    IF k > Len(keys) THEN resLine
    ELSE LET key == keys[k]
         IN IF key \in DOMAIN outlineVars
            THEN SubstituteOutline(
                    ReplaceFirst(resLine, <<"<">> \o key \o <<">">>,
                                 q \o outlineVars[key] \o q),
                    keys, k + 1, outlineVars, q)
            ELSE SubstituteOutline(resLine, keys, k + 1, outlineVars, q)

\* The operations that read this.elements take it as the argument els,
\* those that read this.elemenstCountHash take it as counts, and those
\* that read this.settings or differ between the two handler sources take
\* the handler h = [impl, settings]: the constructor chains them before the
\* first state exists.

\* s.reg.test(text) for a step s
StepRegTest(s, text) == RegExpTest(s.reg, text)

\* getStepByText(text, gherkin): the index of the first step, in index
\* order, of the given type (any type when gherkin is left out) whose full
\* pattern matches the text; 0 when there is none
getStepByText(els, text, gherkin) ==
    LET First(K) == IF K = {} THEN 0 ELSE CHOOSE k \in K : \A j \in K : k <= j
    IN First({ k \in DOMAIN els :
                 /\ (gherkin # Undefined => els[k].gherkin = gherkin)
                 /\ StepRegTest(els[k], text) })

\* the match of the line with its outline variables put in, without
\* quotes (q empty) or between quotes; none when the line has no <...>
OutlineLineMatch(line, document, q) ==
    LET Substituted(outlineMatch) ==
            IF Len(outlineMatch) = 0 THEN NoMatch
            ELSE getGherkinRegExMatch(
                     SubstituteOutline(
                         line,
                         [k \in DOMAIN outlineMatch |->
                             StripAngles(outlineMatch[k])],
                         1, getOutlineVars(document), q))
    IN Substituted(OutlineMatchFrom(line, 1))

\* a getGherkinMatch that never looks at the quoted variant
PureMatchOnly(els, line, document) ==
    IF Len(OutlineMatchFrom(line, 1)) > 0
    THEN OutlineLineMatch(line, document, << >>)
    ELSE getGherkinRegExMatch(line)

\* getGherkinMatch(line, document): for a line with <...>, the quoted
\* variant when getStepByText finds a step for its step text, else the pure
\* one
getGherkinMatch(els, line, document) ==
    IF Len(OutlineMatchFrom(line, 1)) > 0
    THEN LET Either(pureMatch, quotesMatch) ==
                 IF /\ quotesMatch.ok /\ Len(quotesMatch.m4) > 0
                    /\ getStepByText(els, quotesMatch.m4, Undefined) # 0
                 THEN quotesMatch
                 ELSE pureMatch
         IN Either(OutlineLineMatch(line, document, << >>),
                   OutlineLineMatch(line, document, <<"\"">>))
    ELSE getGherkinRegExMatch(line)

\* this.elements after getStepByText(text, gherkin): find tests the reg of
\* every step up to the one it returns
AfterGetStepByText(els, text, gherkin) ==
    LET Tested(k) ==
            [j \in DOMAIN els |->
                IF k = 0 \/ j <= k
                THEN [els[j] EXCEPT !.reg = RegExpAfterTest(@, text)]
                ELSE els[j]]
    IN Tested(getStepByText(els, text, gherkin))

\* this.elements after getGherkinMatch(line, document)
AfterGetGherkinMatch(els, line, document) ==
    LET Asked(quotesMatch) ==
            IF quotesMatch.ok /\ Len(quotesMatch.m4) > 0
            THEN AfterGetStepByText(els, quotesMatch.m4, Undefined)
            ELSE els
    IN Asked(OutlineLineMatch(line, document, <<"\"">>))

(***************************************************************************)
(* Compiling a step template                                               *)
(***************************************************************************)
\* handleCustomParameters(step): every configured parameter text, in
\* order, replaced by its value
RECURSIVE ApplyCustomParameters(_, _, _)
ApplyCustomParameters(step, customParameters, k) ==
    IF k > Len(customParameters) THEN step
    ELSE ApplyCustomParameters(
            ReplaceAll(step, customParameters[k].parameter,
                       customParameters[k].value),
            customParameters, k + 1)

handleCustomParameters(h, step) ==
    ApplyCustomParameters(step, h.settings.customParameters, 1)

\* the sub-patterns of the built-in parameter types
FloatPattern == <<"-", "?", "\\", "d", "*", "\\", ".", "?", "\\", "d", "+">>

IntPattern == <<"-", "?", "\\", "d", "+">>

StringInDoubleQuotesPattern == <<"\"", "[", "^", "\"", "]", "+", "\"">>

WordPattern == <<"[", "^", "\\", "s", "]", "+">>

StringPattern ==
    <<"(", "\"", "|", "'", ")", "[", "^", "\\", "1", "]", "*", "\\", "1">>

AnyPattern == <<".", "*">>

Braced(name) == <<"{">> \o name \o <<"}">>

\* specialParameters after the Ruby interpolation: [placeholder, change]
specialParameters ==
    << << Braced(<<"f", "l", "o", "a", "t">>), FloatPattern >>,
       << Braced(<<"i", "n", "t">>), IntPattern >>,
       << Braced(<<"s", "t", "r", "i", "n", "g", "I", "n", "D", "o", "u", "b",
                   "l", "e", "Q", "u", "o", "t", "e", "s">>),
          StringInDoubleQuotesPattern >>,
       << Braced(<<"w", "o", "r", "d">>), WordPattern >>,
       << Braced(<<"s", "t", "r", "i", "n", "g">>), StringPattern >> >>

RECURSIVE ReplaceRuby(_)
\* step.replace(/#{(.*?)}/g, '.*'): from "#{" to the nearest "}"
ReplaceRuby(step) ==
    LET a == IndexOf(step, <<"#", "{">>)
        b == IF a = 0 THEN 0 ELSE IndexOfChar(step, "}", a + 2)
    IN IF a = 0 \/ b = 0 THEN step
       ELSE Sub(step, 1, a) \o AnyPattern
            \o ReplaceRuby(Sub(step, b + 1, Len(step) + 1))

RECURSIVE ReplaceSpecial(_, _)
ReplaceSpecial(step, k) ==
    IF k > Len(specialParameters) THEN step
    ELSE ReplaceSpecial(
            ReplaceAll(step, specialParameters[k][1], specialParameters[k][2]),
            k + 1)

\* this.specialParameters.forEach(([parameter, change]) => ...)
ReplaceSpecialParameters(step) == ReplaceSpecial(ReplaceRuby(step), 1)

RECURSIVE OptionalText(_, _)
\* step.replace(/\(([a-z]+)\)/g, '($1)?') from position i on
OptionalText(s, i) ==
    IF i > Len(s) THEN << >>
    ELSE LET e == RunEnd(s, i + 1, LowerCase)
         IN IF s[i] = "(" /\ e > i + 1 /\ e <= Len(s) /\ s[e] = ")"
            THEN Sub(s, i, e + 1) \o <<"?">> \o OptionalText(s, e + 1)
            ELSE << s[i] >> \o OptionalText(s, i + 1)

RECURSIVE AlternativeEnd(_, _)
\* the end of the run (?:\/([a-zA-Z]+))+ that starts at position e
AlternativeEnd(s, e) ==
    IF e + 1 <= Len(s) /\ s[e] = "/" /\ s[e + 1] \in Letters
    THEN AlternativeEnd(s, RunEnd(s, e + 1, Letters))
    ELSE e

RECURSIVE AlternativeText(_, _)
\* step.replace(/([a-zA-Z]+)(?:\/([a-zA-Z]+))+/g, m => `(${m with | for /})`)
AlternativeText(s, i) ==
    IF i > Len(s) THEN << >>
    ELSE IF s[i] \notin Letters THEN << s[i] >> \o AlternativeText(s, i + 1)
    ELSE LET w == RunEnd(s, i, Letters)
             e == AlternativeEnd(s, w)
         IN IF e = w
            THEN Sub(s, i, w) \o AlternativeText(s, w)
            ELSE <<"(">>
                 \o [k \in 1..(e - i) |->
                        IF s[i + k - 1] = "/" THEN "|" ELSE s[i + k - 1]]
                 \o <<")">> \o AlternativeText(s, e)

\* at position i: "{" not followed by a digit or a comma, with a "}" after
\* it; the position of the nearest such "}", and 0 otherwise
BraceEnd(s, i) ==
    IF /\ i <= Len(s) /\ s[i] = "{"
       /\ (i + 1 <= Len(s) => s[i + 1] \notin Digits \cup {","})
    THEN IndexOfChar(s, "}", i + 1)
    ELSE 0

RECURSIVE GenericParameters(_, _)
\* step.replace(/([^\\]|^){(?![\d,])(.*?)}/g, '$1.*') from position i on
GenericParameters(s, i) ==
    IF i > Len(s) THEN << >>
    ELSE IF s[i] # "\\" /\ BraceEnd(s, i + 1) # 0
    THEN << s[i] >> \o AnyPattern \o GenericParameters(s, BraceEnd(s, i + 1) + 1)
    ELSE IF i = 1 /\ BraceEnd(s, 1) # 0
    THEN AnyPattern \o GenericParameters(s, BraceEnd(s, 1) + 1)
    ELSE << s[i] >> \o GenericParameters(s, i + 1)

\* the symbols escapeRegExp escapes: the regular expression symbols that
\* the compilation steps before it leave no meaning to
EscapedSymbols == {"/"}

\* util.escapeRegExp
escapeRegExp(s) ==
    IF Len(s) = 0 THEN << >>
    ELSE LET parts == [k \in DOMAIN s |->
                          IF s[k] \in EscapedSymbols
                          THEN <<"\\", s[k]>> ELSE << s[k] >>]
         IN Join(parts, << >>)

\* the symbols escaprRegExpForPureText escapes: every regular expression
\* symbol
PureTextSymbols ==
    {"\\", "^", "$", ".", "*", "+", "?", "(", ")", "[", "]", "{", "}", "|",
     "/", "-"}

\* util.escaprRegExpForPureText
escaprRegExpForPureText(s) ==
    IF Len(s) = 0 THEN << >>
    ELSE LET parts == [k \in DOMAIN s |->
                          IF s[k] \in PureTextSymbols
                          THEN <<"\\", s[k]>> ELSE << s[k] >>]
         IN Join(parts, << >>)

RECURSIVE RestoreSpecial(_, _)
\* step.split(escaped change).join(change), for ".*" and then each change
RestoreSpecial(step, k) ==
    IF k > Len(specialParameters) THEN step
    ELSE RestoreSpecial(
            ReplaceAll(step, escaprRegExpForPureText(specialParameters[k][2]),
                       specialParameters[k][2]),
            k + 1)

getRegTextForPureStep(step) ==
    <<"^">>
    \o RestoreSpecial(
           ReplaceAll(escaprRegExpForPureText(ReplaceSpecialParameters(step)),
                      escaprRegExpForPureText(AnyPattern), AnyPattern), 1)
    \o <<"$">>

\* the expression-mode compilation both handlers share
CompileExpression(step) ==
    escapeRegExp(
        GenericParameters(
            AlternativeText(
                OptionalText(ReplaceSpecialParameters(step), 1), 1), 1))

\* s.trim()
Trim(s) ==
    LET a == RunEnd(s, 1, WhiteSpace)
    IN IF a > Len(s) THEN << >>
       ELSE Sub(s, a, RunStart(s, Len(s), WhiteSpace))

\* s.slice(1, -1)
SliceInner(s) == IF Len(s) < 2 THEN << >> ELSE SubSeq(s, 2, Len(s) - 1)

RegExpFlags == {"g", "i", "m", "s", "u", "y"}

NotRegExp == [isRegExp |-> FALSE, pattern |-> << >>]

NewWord == <<"n", "e", "w">>

RegExpWord == <<"R", "e", "g", "E", "x", "p">>

\* the argument of the first new RegExp(...) of the text, matched by
\* /new\s+RegExp\s*\((.*?)\)/s, trimmed; [found, arg]
RegExpConstructorArg(text) ==
    LET Starts == { i \in 1..Len(text) :
                      LET a == i + Len(NewWord)
                          b == RunEnd(text, a, WhiteSpace)
                          c == RunEnd(text, b + Len(RegExpWord), WhiteSpace)
                      IN /\ StartsAt(text, NewWord, i)
                         /\ b > a
                         /\ StartsAt(text, RegExpWord, b)
                         /\ c <= Len(text) /\ text[c] = "("
                         /\ IndexOfChar(text, ")", c + 1) # 0 }
    IN IF Starts = {} THEN [found |-> FALSE, arg |-> << >>]
       ELSE LET i == CHOOSE x \in Starts : \A y \in Starts : x <= y
                b == RunEnd(text, i + Len(NewWord), WhiteSpace)
                c == RunEnd(text, b + Len(RegExpWord), WhiteSpace)
            IN [found |-> TRUE,
                arg |-> Trim(Sub(text, c + 1, IndexOfChar(text, ")", c + 1)))]

\* isRegExpConstructor(text); a template-literal argument needs the
\* backquote and is left out
isRegExpConstructor(text) ==
    LET Quoted(m) ==
            IF /\ m.found /\ Len(m.arg) > 0
               /\ \E q \in {"'", "\""} : m.arg[1] = q /\ m.arg[Len(m.arg)] = q
            THEN [isRegExp |-> TRUE, pattern |-> SliceInner(m.arg)]
            ELSE NotRegExp
    IN Quoted(RegExpConstructorArg(text))

RECURSIVE unescapeFrom(_, _)
unescapeFrom(str, i) ==
    IF i > Len(str) THEN << >>
    ELSE IF /\ str[i] = "\\" /\ i + 1 <= Len(str)
            /\ str[i + 1] \in {"\\", "/", "\"", "'", "{", "}", "(", ")", "[",
                                "]", "^", "$", "+", "*", "?", ".", "|"}
    THEN << str[i + 1] >> \o unescapeFrom(str, i + 2)
    ELSE << str[i] >> \o unescapeFrom(str, i + 1)

\* str.replace(/\\([\\/"'`{}()[\]^$+*?.|])/g, '$1')
unescapeRegexString(str) == unescapeFrom(str, 1)

isValidRegexPattern(pattern) == NewRegExp(pattern).ok

RECURSIVE ReplaceTemplateVars(_)
\* content.replace(/\${[^}]+}/g, '.*')
ReplaceTemplateVars(s) ==
    LET Starts == { i \in 1..Len(s) :
                      /\ StartsAt(s, <<"$", "{">>, i)
                      /\ IndexOfChar(s, "}", i + 2) > i + 2 }
    IN IF Starts = {} THEN s
       ELSE LET i == CHOOSE x \in Starts : \A y \in Starts : x <= y
            IN Sub(s, 1, i) \o AnyPattern
               \o ReplaceTemplateVars(
                     Sub(s, IndexOfChar(s, "}", i + 2) + 1, Len(s) + 1))

\* the pattern of a step written as /pattern/flags: the text between the
\* first "/" and the last "/" that only flags follow; the step itself
\* when there is no such second "/"
RegExpLiteralPattern(step) ==
    LET f == RunStart(step, Len(step), RegExpFlags)
        Ends == { e \in 2..Len(step) : step[e] = "/" /\ e >= f - 1 }
    IN IF Ends = {} THEN step
       ELSE Sub(step, 2, CHOOSE e \in Ends : \A x \in Ends : x <= e)

\* processRegExpPattern(step) of the unnamed handler
processRegExpPattern(step) ==
    LET isLiteral ==
            /\ Len(step) > 0 /\ step[1] = "/"
            /\ \E e \in 1..Len(step) :
                  step[e] = "/" /\ e >= RunStart(step, Len(step), RegExpFlags) - 1
        quoted == Len(step) > 0 /\ step[1] \in {"\"", "'", "^"}
        Pattern(pattern, valid) ==
            IF valid[pattern] THEN [isRegExp |-> TRUE, pattern |-> pattern]
            ELSE NotRegExp
        Quoted(content, valid) ==
            IF IndexOf(content, <<"$", "{">>) # 0
            THEN Pattern(ReplaceTemplateVars(content), valid)
            ELSE IF IndexOfChar(content, "\\", 1) # 0
            THEN Pattern(unescapeRegexString(content), valid)
            ELSE IF Len(content) > 0 /\ content[1] = "^"
            THEN Pattern(content, valid)
            ELSE NotRegExp
        Literal(literal, valid) ==
            IF isLiteral /\ valid[literal]
            THEN [isRegExp |-> TRUE, pattern |-> literal]
            ELSE IF ~quoted THEN NotRegExp
            ELSE Quoted(IF step[1] = "^" THEN step ELSE SliceInner(step), valid)
        Constructed(ctor, unescapedCtor, valid) ==
            IF ctor.isRegExp /\ Len(ctor.pattern) > 0 /\ valid[unescapedCtor]
            THEN [isRegExp |-> TRUE, pattern |-> unescapedCtor]
            ELSE Literal(RegExpLiteralPattern(step), valid)
        Processed(ctor, valid) ==
            Constructed(ctor, unescapeRegexString(ctor.pattern), valid)
    IN Processed(isRegExpConstructor(step),
                 [pattern \in Seq(STRING) |-> isValidRegexPattern(pattern)])

\* getRegTextForStep(step): the unnamed handler first takes a step that
\* already is a regular expression as it stands
getRegTextForStep(h, step) ==
    LET Text(regExpCheck) ==
            IF regExpCheck.isRegExp /\ Len(regExpCheck.pattern) > 0
            THEN regExpCheck.pattern
            ELSE CompileExpression(step)
    IN Text(IF h.impl = "unnamed" THEN processRegExpPattern(step)
            ELSE NotRegExp)

\* the full-pattern text of a step under the settings
RegTextOf(h, step) ==
    IF h.settings.pureTextSteps THEN getRegTextForPureStep(step)
    ELSE getRegTextForStep(h, step)

\* the state of the scan of getPartialRegParts
PartsInit ==
    [res |-> << >>, currString |-> << >>, bracesMode |-> FALSE,
     openingBracesNum |-> 0, closingBracesNum |-> 0]

RECURSIVE PartsSplit(_, _, _)
\* a scan that cuts at every space
PartsSplit(text, i, st) ==
    IF i > Len(text) THEN Append(st.res, st.currString)
    ELSE IF text[i] = " "
    THEN PartsSplit(text, i + 1,
            [st EXCEPT !.res = Append(st.res, st.currString),
                       !.currString = << >>])
    ELSE PartsSplit(text, i + 1,
            [st EXCEPT !.currString = Append(st.currString, text[i])])

RECURSIVE PartsScan(_, _, _)
\* the loop of getPartialRegParts over the compiled text, from index i
PartsScan(text, i, st) ==
    IF i > Len(text) THEN Append(st.res, st.currString)
    ELSE LET c == text[i]
         IN IF st.bracesMode
            THEN LET closing == IF c = ")" THEN st.closingBracesNum + 1
                                ELSE st.closingBracesNum
                     opening == IF c = "(" THEN st.openingBracesNum + 1
                                ELSE st.openingBracesNum
                 IN PartsScan(text, i + 1,
                       [st EXCEPT !.closingBracesNum = closing,
                                  !.openingBracesNum = opening,
                                  !.bracesMode =
                                      ~(c = ")" /\ st.openingBracesNum = closing),
                                  !.currString = Append(st.currString, c)])
            ELSE IF c = " "
            THEN PartsScan(text, i + 1,
                    [st EXCEPT !.res = Append(st.res, st.currString),
                               !.currString = << >>])
            ELSE IF c = "("
            THEN PartsScan(text, i + 1,
                    [st EXCEPT !.currString = Append(st.currString, c),
                               !.bracesMode = TRUE,
                               !.openingBracesNum = 1,
                               !.closingBracesNum = 0])
            ELSE PartsScan(text, i + 1,
                    [st EXCEPT !.currString = Append(st.currString, c)])

getPartialRegParts(h, text) == PartsScan(RegTextOf(h, text), 1, PartsInit)

\* parts.map(el => `(${el}|$)`).join('( |$)').replace(/^\^|^/, '^'): the
\* joined text starts with "(", so the replace puts "^" in front of it
getPartialRegText(h, regText) ==
    LET Joined(parts) ==
            <<"^">>
            \o Join([k \in DOMAIN parts |->
                        <<"(">> \o parts[k] \o <<"|", "$", ")">>],
                    <<"(", " ", "|", "$", ")">>)
    IN Joined(getPartialRegParts(h, regText))

(***************************************************************************)
(* From a template to the steps of the index                               *)
(***************************************************************************)
\* step.replace(/^\^|\$$/g, ''): a leading "^" and a trailing "$" removed
StripAnchors(s) ==
    LET a == IF Len(s) > 0 /\ s[1] = "^" THEN 2 ELSE 1
        b == IF Len(s) >= a /\ s[Len(s)] = "$" THEN Len(s) ELSE Len(s) + 1
    IN Sub(s, a, b)

\* the sub-patterns as getTextForStep looks for them, without backslashes
StringShape == <<"(", "\"", "|", "'", ")", "[", "^", "1", "]", "*", "1">>

IntShape == <<"-", "?", "d", "+">>

FloatShape == <<"-", "?", "d", "*", ".", "?", "d", "+">>

\* step.replace(/"\[^"\]\+"/g, ...) and step.replace(/\[^s\]\+/g, ...):
\* in both patterns the "^" is not escaped, so it is the start-of-input
\* assertion, and it stands after a character the pattern has consumed:
\* the pattern matches nowhere and the step stays as it is
ReplaceAfterStart(step, replacement) == step

\* getTextForStep(step): the template's display text
getTextForStep(step) ==
    ReplaceAll(
        ReplaceAll(
            ReplaceAfterStart(
                ReplaceAfterStart(
                    ReplaceAll(
                        StripAnchors(SelectSeq(step, LAMBDA c : c # "\\")),
                        StringShape, Braced(<<"s", "t", "r", "i", "n", "g">>)),
                    specialParameters[3][1]),
                specialParameters[4][1]),
            IntShape, Braced(<<"i", "n", "t">>)),
        FloatShape, Braced(<<"f", "l", "o", "a", "t">>))

\* util.getMD5Id: a hash of the text, taken to be free of collisions
getMD5Id(text) == [prefix |-> "", md5 |-> text]

\* 'step' + getMD5Id(text)
StepId(text) == [prefix |-> "step", md5 |-> text]

\* the first group matched by /(\([^)()]+\|[^()]+\))/ in the step: a "("
\* at a and its ")" at b with no parenthesis between them and a "|" that
\* has a character on both sides; <<a, b>>, or <<0, 0>>
BracesMatch(step) ==
    LET G == { a \in 1..Len(step) :
                 /\ step[a] = "("
                 /\ LET b == RunEnd(step, a + 1,
                                 { step[k] : k \in 1..Len(step) } \ {"(", ")"})
                    IN /\ b <= Len(step) /\ step[b] = ")"
                       /\ \E k \in (a + 2)..(b - 2) : step[k] = "|" }
    IN IF G = {} THEN << 0, 0 >>
       ELSE LET a == CHOOSE x \in G : \A y \in G : x <= y
            IN << a, RunEnd(step, a + 1,
                            { step[k] : k \in 1..Len(step) } \ {"(", ")"}) >>

RECURSIVE SplitOn(_, _)
\* s.split(c)
SplitOn(s, c) ==
    LET p == IndexOfChar(s, c, 1)
    IN IF p = 0 THEN << s >>
       ELSE << Sub(s, 1, p) >> \o SplitOn(Sub(s, p + 1, Len(s) + 1), c)

\* matchRes.replace(/\(\?:/, '').replace(/^\(|\)$/g, '').split('|')
BracesVariants(matchRes) ==
    LET Inner(a) ==
            Sub(a, IF Len(a) > 0 /\ a[1] = "(" THEN 2 ELSE 1,
                IF Len(a) > 0 /\ a[Len(a)] = ")" THEN Len(a) ELSE Len(a) + 1)
    IN SplitOn(Inner(ReplaceFirst(matchRes, <<"(", "?", ":">>, << >>)), "|")

\* the number of nested calls the stack has room for
MaxStack == 5

\* the templates getStepTextInvariants calls itself on for a step: one for
\* each variant of the first group
InvariantsCalls(step) ==
    LET Called(matchRes, variants) ==
            [k \in DOMAIN variants |-> ReplaceFirst(step, matchRes, variants[k])]
        Matched(m) ==
            IF m[1] = 0 THEN << >>
            ELSE Called(Sub(step, m[1], m[2] + 1),
                        BracesVariants(Sub(step, m[1], m[2] + 1)))
    IN Matched(BracesMatch(step))

RECURSIVE InvariantsWithin(_, _)
RECURSIVE InvariantsOfVariants(_, _, _)
\* the reduce over the calls, from call k on: the results concatenated, or
\* the exception of the first call that throws
InvariantsOfVariants(calls, k, depth) ==
    IF k > Len(calls) THEN [threw |-> FALSE, value |-> << >>]
    ELSE LET Both(first, rest) ==
                 IF first.threw \/ rest.threw
                 THEN [threw |-> TRUE, value |-> << >>]
                 ELSE [threw |-> FALSE, value |-> first.value \o rest.value]
         IN Both(InvariantsWithin(calls[k], depth),
                 IF InvariantsWithin(calls[k], depth).threw
                 THEN [threw |-> TRUE, value |-> << >>]
                 ELSE InvariantsOfVariants(calls, k + 1, depth))

\* getStepTextInvariants(step) with room for depth nested calls: threw when
\* the stack runs out (RangeError), else the variants
InvariantsWithin(step, depth) ==
    IF depth = 0 THEN [threw |-> TRUE, value |-> << >>]
    ELSE IF BracesMatch(step)[1] = 0 THEN [threw |-> FALSE, value |-> << step >>]
    ELSE InvariantsOfVariants(InvariantsCalls(step), 1, depth - 1)

\* getStepTextInvariants(step)
getStepTextInvariants(step) == InvariantsWithin(step, MaxStack).value

\* getElementCount(id)
getElementCount(counts, id) ==
    IF id \in DOMAIN counts THEN counts[id] ELSE 0

\* new RegExp(text) with a flag g: every test moves its lastIndex
GlobalRegExp(text) == [NewRegExp(text) EXCEPT !.flags = {"g"}]

\* new RegExp(...) as getSteps and loadStepsFromJson call it for a step's
\* reg and partialReg: one argument, so no flags
StepRegExp(text) == NewRegExp(text)

\* a Step whose partial pattern is compiled with no fallback
StepWithoutFallback(h, step, def, gherkin, counts) ==
    [id |-> StepId(IF h.settings.pureTextSteps THEN step
                   ELSE getTextForStep(step)),
     reg |-> StepRegExp(RegTextOf(h, step)),
     partialReg |-> StepRegExp(getPartialRegText(h, step)),
     text |-> IF h.settings.pureTextSteps THEN step ELSE getTextForStep(step),
     def |-> def,
     count |-> getElementCount(counts,
                   StepId(IF h.settings.pureTextSteps THEN step
                          ELSE getTextForStep(step))),
     gherkin |-> gherkin]

\* the Step that getSteps builds for one variant
StepOfVariant(h, step, def, gherkin, counts) ==
    LET Built(reg, partialReg, text) ==
            [id |-> StepId(text),
             reg |-> reg,
             partialReg |-> IF partialReg.ok THEN partialReg ELSE reg,
             text |-> text,
             def |-> def,
             count |-> getElementCount(counts, StepId(text)),
             gherkin |-> gherkin]
    IN Built(StepRegExp(RegTextOf(h, step)),
             StepRegExp(getPartialRegText(h, step)),
             IF h.settings.pureTextSteps THEN step ELSE getTextForStep(step))

\* getSteps(fullStepLine, stepPart, def, gherkin, comments): the variants
\* whose full pattern compiles, each made a Step (desc and documentation,
\* which no operation of the model reads, are left out)
getSteps(h, stepPart, def, gherkin, counts) ==
    LET Steps(valid) ==
            [k \in DOMAIN valid |->
                StepOfVariant(h, valid[k], def, gherkin, counts)]
    IN Steps(SelectSeq(IF h.settings.stepsInvariants
                       THEN getStepTextInvariants(stepPart)
                       ELSE << stepPart >>,
                       LAMBDA step : NewRegExp(RegTextOf(h, step)).ok))

(***************************************************************************)
(* Extracting step definitions from source text                            *)
(***************************************************************************)
\* the keywords of a definition, in the order of the alternation
\* (allGherkinWords|defineStep|Step|StepDefinition)
DefinitionWords ==
    allGherkinWords
    \o << <<"d", "e", "f", "i", "n", "e", "S", "t", "e", "p">>,
          <<"S", "t", "e", "p">>,
          <<"S", "t", "e", "p", "D", "e", "f", "i", "n", "i", "t", "i", "o", "n">> >>

\* the symbols a step text may stand between: (/|'|"|`), without the
\* backquote, which a TLA+ string cannot hold
StepStartSymbols == {"/", "'", "\""}

RECURSIVE StepBodyEnd(_, _, _)
\* ((?:(?=(?:\\)*)\\.|.)*?)\3 from position i: the position of the closing
\* symbol, 0 when there is none.  The lazy body first tries to end; else it
\* takes a backslash with the character after it, and only when that leads
\* nowhere the backslash alone.
StepBodyEnd(line, i, symbol) ==
    IF i > Len(line) THEN 0
    ELSE IF line[i] = symbol THEN i
    ELSE IF line[i] = "\\" /\ i + 1 <= Len(line)
    THEN LET r == StepBodyEnd(line, i + 2, symbol)
         IN IF r # 0 THEN r ELSE StepBodyEnd(line, i + 1, symbol)
    ELSE StepBodyEnd(line, i + 1, symbol)

\* the end of the run [^/'"`\w]*? from position i
FillerEnd(line, i) ==
    RunEnd(line, i, { line[k] : k \in 1..Len(line) }
                    \ (StepStartSymbols \cup WordChars))

\* the keyword w (an index of DefinitionWords) stands at position k, in
\* any case, and the rest of getStepRegExp() matches after it
DefinitionAt(line, k, w) ==
    LET word == DefinitionWords[w]
        e    == FillerEnd(line, k + Len(word))
    IN /\ StartsAt(toLowerCase(line), toLowerCase(word), k)
       /\ e <= Len(line)
       /\ line[e] \in StepStartSymbols
       /\ StepBodyEnd(line, e + 1, line[e]) # 0

\* the positions a keyword may start at, by the start part
\* ((?:[^'"/]*?[^\w])|.{0}): after a character that is no word character
\* with no quote or slash before it, or at the start of the line
KeywordStarts(line) ==
    { k \in 1..Len(line) :
        \/ k = 1
        \/ /\ line[k - 1] \notin WordChars
           /\ \A j \in 1..(k - 2) : line[j] \notin StepStartSymbols }

\* the order the pattern tries the starts in: the shortest prefix first,
\* the empty alternative last
StartRank(line, k) == IF k = 1 THEN Len(line) + 2 ELSE k

\* line.match(getStepRegExp()): m1 the text before the keyword, m2 the
\* keyword, m3 the opening symbol, m4 the step text
getStepRegExpMatch(line) ==
    LET Groups(k, word, e) ==
            [ok |-> TRUE,
             m1 |-> Sub(line, 1, k),
             m2 |-> Sub(line, k, k + Len(word)),
             m3 |-> << line[e] >>,
             m4 |-> Sub(line, e + 1, StepBodyEnd(line, e + 1, line[e]))]
        Best(k, word) == Groups(k, word, FillerEnd(line, k + Len(word)))
        First(C) ==
            IF C = {} THEN NoMatch
            ELSE (LET At(best) == Best(best[1], DefinitionWords[best[2]])
                  IN At(CHOOSE c \in C : \A d \in C :
                           \/ StartRank(line, c[1]) < StartRank(line, d[1])
                           \/ (c[1] = d[1] /\ c[2] <= d[2])))
    IN First({ c \in KeywordStarts(line) \X DOMAIN DefinitionWords :
                 DefinitionAt(line, c[1], c[2]) })

\* geStepDefinitionMatch(line): the generic family.  The other families
\* (a call through a namespace, exports.X = function, cucumber.X, a
\* RegExp construction or literal) need a keyword with only non-word
\* characters between it and a ")" that a "(" follows, "exports.",
\* "cucumber.", "RegExp" or a closing "/" in the line; the source lines of
\* the model that the generic family does not match, and the pairs of them
\* put together, hold none of these.
geStepDefinitionMatch(line) == getStepRegExpMatch(line)

\* util.clearComments, line by line: a line that is a line comment is
\* emptied, so the line numbers stay
clearComments(lines) ==
    [k \in DOMAIN lines |->
        IF StartsAt(lines[k], <<"/", "/">>, RunEnd(lines[k], 1, WhiteSpace))
        THEN << >> ELSE lines[k]]

\* a match that takes the two lines whenever the first alone does not match
FileLineMatchBoth(h, lines, k) ==
    IF geStepDefinitionMatch(handleCustomParameters(h, lines[k])).ok
    THEN geStepDefinitionMatch(handleCustomParameters(h, lines[k]))
    ELSE IF k + 1 <= Len(lines)
            /\ geStepDefinitionMatch(handleCustomParameters(h, lines[k])
                    \o handleCustomParameters(h, lines[k + 1])).ok
    THEN geStepDefinitionMatch(handleCustomParameters(h, lines[k])
             \o handleCustomParameters(h, lines[k + 1]))
    ELSE NoMatch

\* the match getFileSteps uses for line k of the lines (1-based): the
\* line alone, or the line with the next one when only both match
FileLineMatch(h, lines, k) ==
    LET Matched(currLine, nextLine, match) ==
            IF match[currLine].ok THEN match[currLine]
            ELSE IF Len(nextLine) > 0
                    /\ match[currLine \o nextLine].ok
                    /\ ~match[nextLine].ok
            THEN match[currLine \o nextLine]
            ELSE NoMatch
    IN Matched(handleCustomParameters(h, lines[k]),
               IF k + 1 <= Len(lines)
               THEN handleCustomParameters(h, lines[k + 1]) ELSE << >>,
               [line \in Seq(STRING) |-> geStepDefinitionMatch(line)])

\* a URI: file:// in front of the path where the handler writes it
Uri(scheme, path) == [scheme |-> scheme, path |-> path]

\* Location.create(getOSPath(filePath), Range.create(pos, pos))
Location(filePath, line, character) ==
    [uri |-> filePath, line |-> line, character |-> character]

RECURSIVE FileStepsFrom(_, _, _, _, _)
\* the reduce of getFileSteps over the lines, from line k on
FileStepsFrom(h, filePath, lines, k, counts) ==
    IF k > Len(lines) THEN << >>
    ELSE LET Steps(match) ==
                 IF match.ok
                 THEN getSteps(h, match.m4,
                               Location(Uri("", filePath), k - 1, Len(match.m1)),
                               getGherkinTypeLower(match.m2), counts)
                 ELSE << >>
         IN Steps(FileLineMatch(h, lines, k))
            \o FileStepsFrom(h, filePath, lines, k + 1, counts)

(***************************************************************************)
(* The workspace: step definition files, feature files, precomputed        *)
(* records, and what each glob pattern resolves to                         *)
(***************************************************************************)
\* getFileContent(f).split(/\r?\n/g) for the step definition files
SourceFiles ==
    [f \in {"a.js", "b.js"} |->
        IF f = "a.js"
        THEN << <<"G", "i", "v", "e", "n", "(", "'", "a", " ", "{", "i", "n", "t", "}", "'", ")">>,
                <<"/", "/", " ", "n", "o", "t", "e">>,
                <<"W", "h", "e", "n", "(", "/", "^", "a", " ", "b", "$", "/", ")">> >>
        ELSE << <<"T", "h", "e", "n", "(", "\"", "a", " ", "b", "\"", ")">>,
                <<"G", "i", "v", "e", "n", "(", "'", "a", " ", "{", "w", "o", "r", "d", "}", "'", ")">>,
                <<"T", "h", "e", "n", "(">>,
                <<"'", "c", " ", "(", "x", "|", "y", ")", "'", ")">> >>]

\* the lines of the feature files
FeatureFiles ==
    [f \in {"x.feature", "y.feature"} |->
        IF f = "x.feature"
        THEN << <<"G", "i", "v", "e", "n", " ", "a", " ", "1">>,
                <<"W", "h", "e", "n", " ", "a", " ", "b">>,
                <<"A", "n", "d", " ", "a", " ", "b">> >>
        ELSE << <<" ", " ", "G", "i", "v", "e", "n", " ", "a", " ", "<", "n", ">">>,
                <<"E", "x", "a", "m", "p", "l", "e", "s", ":">>,
                <<"|", " ", "n", " ", "|">>,
                <<"|", " ", "1", " ", "|">>,
                <<"B", "u", "t", " ", "c", " ", "x">> >>]

\* a record of a precomputed steps file: has names the fields present
JsonRecord(has, text, matchText, gherkin, count) ==
    [has |-> has, text |-> text, matchText |-> matchText,
     regText |-> << >>, partialRegText |-> << >>,
     gherkin |-> gherkin, count |-> count]

\* the precomputed steps files: files whose JSON.parse(fileContent) is an
\* array of records (one of them in a directory of its own), one whose top
\* level is an object, and one that JSON.parse throws on
JsonFiles ==
    [f \in {"s.json", "t.json", "obj.json", "bad.json", "r/u.json", "r/q.json"} |->
        CASE f = "s.json" ->
               [kind |-> "array",
                records |->
                  << JsonRecord({"text", "gherkin", "count"}, <<"a", " ", "b">>, << >>, "When", 2),
                     JsonRecord({"gherkin"}, << >>, << >>, "Given", 0),
                     JsonRecord({"text", "gherkin"}, <<"a", " ", "(">>, << >>, "Given", 0),
                     JsonRecord({"text", "gherkin", "count"}, <<"a", " ", "b">>, << >>, "Then", 1),
                     JsonRecord({"text", "matchText", "gherkin"}, <<"a", " ", "{", "i", "n", "t", "}">>,
                                <<"^", "a", " ", "\\", "d", "$">>, "Given", 0) >>]
          [] f = "t.json" ->
               [kind |-> "array",
                records |->
                  << JsonRecord({"text", "gherkin"}, <<"b", " ", "c">>, << >>, "Then", 0) >>]
          [] f = "r/u.json" ->
               [kind |-> "array",
                records |->
                  << JsonRecord({"text", "gherkin"}, <<"a", " ", "+", "b">>, << >>, "Given", 0),
                     JsonRecord({"text", "matchText", "gherkin"}, <<"+", "b">>, <<"b">>, "When", 0),
                     [JsonRecord({"text", "partialRegText", "gherkin"}, <<"c", " ", "+", "d">>, << >>, "Then", 0)
                        EXCEPT !.partialRegText = <<"(">>],
                     JsonRecord({"text", "gherkin", "count"}, <<"n">>, << >>, "Given", 0 - 1),
                     [JsonRecord({"text", "regText", "gherkin"}, <<"e">>, << >>, "When", 0)
                        EXCEPT !.regText = <<"^", "e", "$">>] >>]
          [] f = "r/q.json" ->
               [kind |-> "array",
                records |->
                  << JsonRecord({"text", "gherkin"}, <<"a", " ", "\"", "z", "\"">>, << >>, "Given", 0) >>]
          [] f = "obj.json" -> [kind |-> "object", records |-> << >>]
          [] OTHER -> [kind |-> "unparsable", records |-> << >>]]

\* glob.sync(pattern): the files a pattern resolves to, in order
GlobSync ==
    [p \in {"a.js", "b.js", "*.js", "none.js", "s.json", "t.json", "obj.json",
            "bad.json", "gone.json", "*.json", "r/u.json", "r/q.json",
            "x.feature",
            "**/*.feature"} |->
        CASE p = "*.js" -> << "a.js", "b.js" >>
          [] p = "**/*.feature" -> << "x.feature", "y.feature" >>
          [] p = "*.json" -> << "bad.json", "obj.json", "s.json", "t.json" >>
          [] p = "none.js" -> << >>
          [] OTHER -> << p >>]

\* the lists of step globs populate is called with
StepsPathes == { << "*.js" >>, << "b.js", "a.js" >>, << "a.js", "none.js" >> }

\* the paths setElementsHash is called with
FeaturePaths == { "x.feature", "**/*.feature" }

(***************************************************************************)
(* The handlers: a handler source with the settings it is built with       *)
(***************************************************************************)
\* a Settings object (types.ts); stepsSource and stepsJsonFiles are read
\* by the unnamed handler only
SettingsOf(steps, syncfeatures, strictValidation, strictCompletion,
           pureTextSteps, stepsInvariants, customParameters, stepsSource) ==
    [steps |-> steps,
     syncfeatures |-> syncfeatures,
     strictGherkinValidation |-> strictValidation,
     strictGherkinCompletion |-> strictCompletion,
     pureTextSteps |-> pureTextSteps,
     stepsInvariants |-> stepsInvariants,
     customParameters |-> customParameters,
     stepsSource |-> stepsSource,
     stepsJsonFiles |-> << "s.json", "none.js", "r/q.json" >>]

\* syncfeatures: false, true, or a glob as a string
NoSync == [kind |-> "boolean", on |-> FALSE, path |-> ""]

SyncAll == [kind |-> "boolean", on |-> TRUE, path |-> ""]

SyncPath(path) == [kind |-> "string", on |-> TRUE, path |-> path]

\* the default settings
PlainSettings ==
    SettingsOf(<< "*.js" >>, NoSync, FALSE, FALSE, FALSE, FALSE, << >>, "scan")

\* strict validation and completion, variants expanded, counts seeded from
\* every feature file
StrictSettings ==
    SettingsOf(<< "b.js", "a.js" >>, SyncAll, TRUE, TRUE, FALSE, TRUE, << >>,
               "scan")

\* pure text steps and a custom parameter, counts seeded from one feature
\* file
PureSettings ==
    SettingsOf(<< "a.js", "none.js" >>, SyncPath("x.feature"), FALSE, FALSE,
               TRUE, FALSE,
               << [parameter |-> <<"{", "w", "o", "r", "d", "}">>, value |-> <<"{", "i", "n", "t", "}">>] >>, "scan")

\* steps from the precomputed records, strict validation
JsonSettings ==
    SettingsOf(<< "*.js" >>, NoSync, TRUE, FALSE, FALSE, FALSE, << >>, "json")

\* the handlers the model builds: [impl, settings]
Handlers ==
    { [impl |-> "gserver", settings |-> PlainSettings],
      [impl |-> "gserver", settings |-> StrictSettings],
      [impl |-> "gserver", settings |-> PureSettings],
      [impl |-> "unnamed", settings |-> StrictSettings],
      [impl |-> "unnamed", settings |-> JsonSettings] }

\* handlers in json mode that differ in the precomputed files they are
\* configured with
RecordHandlers ==
    { [impl |-> "unnamed",
       settings |-> [JsonSettings EXCEPT !.stepsJsonFiles = files]] :
        files \in { << "r/u.json" >>, << "s.json", "r/u.json" >>,
                    << "t.json", "s.json" >> } }

(***************************************************************************)
(* The steps of a file                                                     *)
(***************************************************************************)
\* getFileSteps of the gserver handler, getFileStepsFromSource of the
\* unnamed one: the steps of the definitions of a source file
getFileStepsFromSource(h, filePath, counts) ==
    FileStepsFrom(h, filePath, clearComments(SourceFiles[filePath]), 1, counts)

\* the Step loadStepsFromJson makes of record number index (0-based) of a
\* file: null where the record has no text or one of the two patterns
\* compiled before the partial pattern's try does not compile (the first
\* value of partialReg is compiled outside that try); a field that is
\* absent or falsy is the empty string
JsonStep(h, jsonFilePath, stepData, index) ==
    LET regText == IF Len(stepData.regText) > 0 THEN stepData.regText
                   ELSE stepData.text
        Built(reg, partialReg) ==
            [null |-> FALSE,
             value |->
               [id |-> getMD5Id(stepData.text),
                reg |-> reg,
                partialReg |-> IF partialReg.ok THEN partialReg ELSE reg,
                text |-> stepData.text,
                def |-> Location(Uri("file://", jsonFilePath), index, 0),
                count |-> IF "count" \in stepData.has THEN stepData.count ELSE 0,
                gherkin |-> stepData.gherkin]]
        Checked(reg, first) ==
            IF ~reg.ok \/ ~first.ok THEN Null
            ELSE Built(reg, StepRegExp(getPartialRegText(h, stepData.text)))
    IN IF "text" \notin stepData.has \/ Len(stepData.text) = 0 THEN Null
       ELSE Checked(StepRegExp(IF Len(stepData.matchText) > 0
                               THEN stepData.matchText ELSE regText),
                    NewRegExp(IF Len(stepData.partialRegText) > 0
                              THEN stepData.partialRegText ELSE regText))

RECURSIVE JsonStepsUntilBad(_, _, _, _)
\* a map that gives up at the first record it cannot build
JsonStepsUntilBad(h, jsonFilePath, stepsData, k) ==
    IF k > Len(stepsData) THEN << >>
    ELSE IF JsonStep(h, jsonFilePath, stepsData[k], k - 1).null THEN << >>
    ELSE << JsonStep(h, jsonFilePath, stepsData[k], k - 1).value >>
         \o JsonStepsUntilBad(h, jsonFilePath, stepsData, k + 1)

RECURSIVE JsonStepsFrom(_, _, _, _)
\* stepsData.map(...).filter(step => step !== null), from record k on
JsonStepsFrom(h, jsonFilePath, stepsData, k) ==
    IF k > Len(stepsData) THEN << >>
    ELSE LET Kept(step) == IF step.null THEN << >> ELSE << step.value >>
         IN Kept(JsonStep(h, jsonFilePath, stepsData[k], k - 1))
            \o JsonStepsFrom(h, jsonFilePath, stepsData, k + 1)

\* loadStepsFromJson(jsonFilePath): [] for a file that does not exist, for
\* one JSON.parse throws on (the outer catch) and for one that is no array
loadStepsFromJson(h, jsonFilePath) ==
    IF jsonFilePath \notin DOMAIN JsonFiles THEN << >>
    ELSE IF JsonFiles[jsonFilePath].kind # "array" THEN << >>
    ELSE JsonStepsFrom(h, jsonFilePath, JsonFiles[jsonFilePath].records, 1)

RECURSIVE Concat(_)
\* the concatenation of a sequence of sequences
Concat(seqs) ==
    IF Len(seqs) = 0 THEN << >> ELSE Head(seqs) \o Concat(Tail(seqs))

\* the files a list of globs resolves to, glob by glob
GlobFiles(paths) == Concat([k \in DOMAIN paths |-> GlobSync[paths[k]]])

\* loadStepsFromJsonFiles(jsonFilePaths)
loadStepsFromJsonFiles(h, jsonFilePaths) ==
    LET files == GlobFiles(jsonFilePaths)
    IN Concat([k \in DOMAIN files |-> loadStepsFromJson(h, files[k])])

\* The steps of every source file under every handler, worked out once.
\* Of a Step only count depends on the state, so the table is built with
\* no counts.
SourceStepsTable ==
    { [h |-> h, filePath |-> f, steps |-> getFileStepsFromSource(h, f, << >>)] :
        h \in Handlers, f \in DOMAIN SourceFiles }

\* The steps of the precomputed records under every handler, worked out
\* once.
JsonStepsTable ==
    { [h |-> h, steps |-> loadStepsFromJsonFiles(h, h.settings.stepsJsonFiles)] :
        h \in Handlers \cup RecordHandlers }

\* getFileSteps(filePath): the unnamed handler in json mode loads the
\* precomputed records whatever the file; else the steps of the file's
\* definitions, each with count getElementCount(id)
getFileSteps(h, filePath, counts) ==
    IF h.impl = "unnamed" /\ h.settings.stepsSource = "json"
    THEN (CHOOSE e \in JsonStepsTable : e.h = h).steps
    ELSE LET Counted(steps) ==
                 [k \in DOMAIN steps |->
                     [steps[k] EXCEPT
                         !.count = getElementCount(counts, steps[k].id)]]
         IN Counted((CHOOSE e \in SourceStepsTable :
                        e.h = h /\ e.filePath = filePath).steps)

(***************************************************************************)
(* The index                                                               *)
(***************************************************************************)
\* the ids of a sequence of steps
IdsOf(steps) == { steps[k].id : k \in DOMAIN steps }

RECURSIVE KeepAll(_, _, _)
\* a reduce that pushes every step, present or not
KeepAll(steps, k, acc) ==
    IF k > Len(steps) THEN acc
    ELSE KeepAll(steps, k + 1,
                 [elements |-> Append(acc.elements, steps[k]),
                  elementsHash |-> acc.elementsHash \cup {steps[k].id}])

RECURSIVE KeepNew(_, _, _)
\* the reduce of populate over the steps, from step k on: a step is pushed
\* when its id is not in elementsHash, and its id is put there.
\* acc = [elements, elementsHash].
KeepNew(steps, k, acc) ==
    IF k > Len(steps) THEN acc
    ELSE IF steps[k].id \in acc.elementsHash
    THEN KeepNew(steps, k + 1, acc)
    ELSE KeepNew(steps, k + 1,
                 [elements |-> Append(acc.elements, steps[k]),
                  elementsHash |-> acc.elementsHash \cup {steps[k].id}])

RECURSIVE PopulateFiles(_, _, _, _, _)
\* the reduce of populate over the files, from file k on
PopulateFiles(h, files, k, counts, acc) ==
    IF k > Len(files) THEN acc
    ELSE PopulateFiles(h, files, k + 1, counts,
                       KeepNew(getFileSteps(h, files[k], counts), 1, acc))

\* populate(root, stepsPathes): the new elements and elementsHash
populate(h, stepsPathes, counts) ==
    PopulateFiles(h, GlobFiles(stepsPathes), 1, counts,
                  [elements |-> << >>, elementsHash |-> {}])

\* a counter that is set to 1 whatever it was
SetCountOne(counts, id) ==
    [i \in DOMAIN counts \cup {id} |-> IF i = id THEN 1 ELSE counts[i]]

\* incrementElementCount(id): the new elemenstCountHash
incrementElementCount(counts, id) ==
    IF id \in DOMAIN counts /\ counts[id] # 0
    THEN [counts EXCEPT ![id] = @ + 1]
    ELSE [i \in DOMAIN counts \cup {id} |-> IF i = id THEN 1 ELSE counts[i]]

RECURSIVE CountLines(_, _, _, _)
\* the forEach of setElementsHash over the lines of a feature file, from
\* line k on
CountLines(els, text, k, counts) ==
    IF k > Len(text) THEN counts
    ELSE LET Counted(step) ==
                 IF step # 0 THEN incrementElementCount(counts, els[step].id)
                 ELSE counts
             Matched(match) ==
                 Counted(IF match.ok
                         THEN getStepByText(els, match.m4, Undefined)
                         ELSE 0)
         IN CountLines(els, text, k + 1,
                       Matched(getGherkinMatch(els, text[k], text)))

RECURSIVE CountFiles(_, _, _, _)
\* the forEach of setElementsHash over the files, from file k on
CountFiles(els, files, k, counts) ==
    IF k > Len(files) THEN counts
    ELSE CountFiles(els, files, k + 1,
                    CountLines(els, FeatureFiles[files[k]], 1, counts))

\* setElementsHash(path): the new elemenstCountHash, and the elements with
\* their counts read from it
setElementsHash(els, path) ==
    LET Hashed(counts) ==
            [elemenstCountHash |-> counts,
             elements |-> [k \in DOMAIN els |->
                             [els[k] EXCEPT
                                 !.count = getElementCount(counts, els[k].id)]]]
    IN Hashed(CountFiles(els, GlobSync[path], 1, << >>))

\* the path the constructor resynchronizes with
SyncFeaturesPath(syncfeatures) ==
    IF syncfeatures.kind = "boolean" THEN "**/*.feature" ELSE syncfeatures.path

\* constructor(root, settings): populate, then setElementsHash when
\* syncfeatures is true or a string
Constructor(h) ==
    LET Synced(p, r) ==
            [elements |-> r.elements, elementsHash |-> p.elementsHash,
             elemenstCountHash |-> r.elemenstCountHash]
        Populated(p) ==
            IF h.settings.syncfeatures.on
            THEN Synced(p, setElementsHash(
                               p.elements,
                               SyncFeaturesPath(h.settings.syncfeatures)))
            ELSE [elements |-> p.elements, elementsHash |-> p.elementsHash,
                  elemenstCountHash |-> << >>]
    IN Populated(populate(h, h.settings.steps, << >>))

(***************************************************************************)
(* The queries.  A query returns [result, elements]: what the method       *)
(* returns, and this.elements after the tests of the steps' expressions    *)
(* that the method made.                                                   *)
(***************************************************************************)
\* line.replace(/\s*$/, '')
RTrim(line) == Sub(line, 1, RunStart(line, Len(line), WhiteSpace))

\* line.replace(/^\s*/, '')
LTrim(line) == Sub(line, RunEnd(line, 1, WhiteSpace), Len(line) + 1)

\* the types And and But inherit
MainTypes == {"Given", "When", "Then"}

RECURSIVE ScanBack(_, _, _)
\* the reduceRight of getStrictGherkinType over lines 1..i: [res, els]
ScanBack(els, text, i) ==
    IF i = 0 THEN [res |-> "Other", els |-> els]
    ELSE LET Line(match, after) ==
                 IF match.ok /\ getGherkinTypeLower(match.m2) \in MainTypes
                 THEN [res |-> getGherkinTypeLower(match.m2), els |-> after]
                 ELSE ScanBack(after, text, i - 1)
         IN Line(getGherkinMatch(els, text[i], text),
                 AfterGetGherkinMatch(els, text[i], text))

\* a slice that keeps the line itself too
SliceThrough(text, lineNumber) ==
    IF lineNumber + 1 < Len(text) THEN lineNumber + 1 ELSE Len(text)

\* text.split(/\r?\n/g).slice(0, lineNumber): the number of lines kept
SliceEnd(text, lineNumber) ==
    IF lineNumber < Len(text) THEN lineNumber ELSE Len(text)

\* getStrictGherkinType(gherkinPart, lineNumber, text)
getStrictGherkinType(els, gherkinPart, lineNumber, text) ==
    IF getGherkinType(gherkinPart) \in {"And", "But"}
    THEN ScanBack(els, text, SliceEnd(text, lineNumber)).res
    ELSE getGherkinTypeLower(gherkinPart)

\* this.elements after getStrictGherkinType(gherkinPart, lineNumber, text)
AfterGetStrictGherkinType(els, gherkinPart, lineNumber, text) ==
    IF getGherkinType(gherkinPart) \in {"And", "But"}
    THEN ScanBack(els, text, SliceEnd(text, lineNumber)).els
    ELSE els

\* the Diagnostic of validate
Diagnostic(lineNum, beforeGherkin, line, lineForError) ==
    [null |-> FALSE,
     severity |-> "Warning",
     range |-> [start |-> [line |-> lineNum, character |-> Len(beforeGherkin)],
                end |-> [line |-> lineNum, character |-> Len(line)]],
     message |-> lineForError,
     source |-> "cucumberautocomplete"]

\* validate(line, lineNum, text).  The unnamed handler returns null right
\* after the lookup of the step.
validate(h, els, line0, lineNum, text) ==
    LET line == RTrim(line0)
        Found(match, gherkinWord, els2) ==
            [result |->
               IF h.impl = "unnamed" THEN Null
               ELSE IF getStepByText(els2, match.m4, gherkinWord) # 0 THEN Null
               ELSE Diagnostic(lineNum, match.m1, line, LTrim(line)),
             elements |-> AfterGetStepByText(els2, match.m4, gherkinWord)]
        Matched(match, els1) ==
            IF ~match.ok THEN [result |-> Null, elements |-> els1]
            ELSE IF h.settings.strictGherkinValidation
            THEN Found(match,
                       getStrictGherkinType(els1, match.m2, lineNum, text),
                       AfterGetStrictGherkinType(els1, match.m2, lineNum, text))
            ELSE Found(match, Undefined, els1)
    IN Matched(getGherkinMatch(els, line, text),
               AfterGetGherkinMatch(els, line, text))

\* getDefinition(line, text)
getDefinition(els, line, text) ==
    LET Found(match, els1, step) ==
            [result |-> IF step # 0
                        THEN [null |-> FALSE, def |-> els1[step].def]
                        ELSE Null,
             elements |-> AfterGetStepByText(els1, match.m4, Undefined)]
        Matched(match, els1) ==
            IF ~match.ok THEN [result |-> Null, elements |-> els1]
            ELSE Found(match, els1, getStepByText(els1, match.m4, Undefined))
    IN Matched(getGherkinMatch(els, line, text),
               AfterGetGherkinMatch(els, line, text))

\* stepPartBase.replace(/[^\s]+$/, ''): the last word is dropped
StripLastWord(stepPartBase) ==
    Sub(stepPartBase, 1,
        RunStart(stepPartBase, Len(stepPartBase),
                 { stepPartBase[k] : k \in DOMAIN stepPartBase } \ WhiteSpace))

\* the width getCompletion asks getSortPrefix for
SortPrefixWidth == 5

RECURSIVE SortPrefixFrom(_, _)
\* the loop of getSortPrefix from digit i down: the number in base 26,
\* the digit 0 written Z, 1 written Y, and so on down the character codes
SortPrefixFrom(num, i) ==
    IF i < 0 THEN << >>
    ELSE LET powNum == Len(UpperSeq) ^ i
             letterCode == num \div powNum
         IN << CodeOrder[CharCode("Z") - letterCode] >>
            \o SortPrefixFrom(num - letterCode * powNum, i - 1)

\* util.getSortPrefix(num, count)
getSortPrefix(num, count) == SortPrefixFrom(num, count - 1)

\* a sortText with the text in front of the count's prefix
TextFirstSortText(step) ==
    step.text \o <<"_">> \o getSortPrefix(step.count, SortPrefixWidth)

\* sortText: getSortPrefix(step.count, 5) + '_' + step.text
SortText(step) ==
    getSortPrefix(step.count, SortPrefixWidth) \o <<"_">> \o step.text

\* the CompletionItem of a step (documentation and insertText, which no
\* operation of the model reads, are left out)
CompletionItem(step) ==
    [label |-> step.text,
     kind |-> "Snippet",
     data |-> step.id,
     sortText |-> SortText(step),
     insertTextFormat |-> "Snippet"]

RECURSIVE StrictFilter(_, _, _, _, _, _)
\* the first filter of getCompletion, from step k on: [kept, els], kept
\* the indexes of the steps that stay
StrictFilter(h, els, k, gherkinPart, lineNumber, text) ==
    IF k > Len(els) THEN [kept |-> << >>, els |-> els]
    ELSE LET Filtered(keep, rest) ==
                 [kept |-> (IF keep THEN << k >> ELSE << >>) \o rest.kept,
                  els |-> rest.els]
         IN IF h.settings.strictGherkinCompletion
            THEN Filtered(
                     els[k].gherkin =
                         getStrictGherkinType(els, gherkinPart, lineNumber, text),
                     StrictFilter(
                         h, AfterGetStrictGherkinType(els, gherkinPart,
                                                      lineNumber, text),
                         k + 1, gherkinPart, lineNumber, text))
            ELSE Filtered(TRUE, StrictFilter(h, els, k + 1, gherkinPart,
                                             lineNumber, text))

\* a filter that keeps every step
NoPartialFilter(els, kept, stepPart) == kept

\* the second filter of getCompletion: the kept steps whose partialReg
\* matches the step part
PartialFilter(els, kept, stepPart) ==
    SelectSeq(kept, LAMBDA k : RegExpTest(els[k].partialReg, stepPart))

\* this.elements after the second filter
AfterPartialFilter(els, kept, stepPart) ==
    [j \in DOMAIN els |->
        IF \E i \in DOMAIN kept : kept[i] = j
        THEN [els[j] EXCEPT !.partialReg = RegExpAfterTest(@, stepPart)]
        ELSE els[j]]

\* getCompletion(line, lineNumber, text)
getCompletion(h, els, line, lineNumber, text) ==
    LET Items(els2, kept) ==
            [i \in DOMAIN kept |-> CompletionItem(els2[kept[i]])]
        Result(res) ==
            IF Len(res) > 0 THEN [null |-> FALSE, items |-> res] ELSE Null
        Filtered(strict, stepPart) ==
            [result |->
               Result(Items(strict.els,
                            PartialFilter(strict.els, strict.kept, stepPart))),
             elements |-> AfterPartialFilter(strict.els, strict.kept, stepPart)]
        Matched(match, els1) ==
            IF ~match.ok THEN [result |-> Null, elements |-> els1]
            ELSE Filtered(StrictFilter(h, els1, 1, match.m2, lineNumber, text),
                          StripLastWord(match.m4))
    IN Matched(getGherkinMatch(els, line, text),
               AfterGetGherkinMatch(els, line, text))

\* getCompletionResolve(item): the new elemenstCountHash
getCompletionResolve(counts, item) == incrementElementCount(counts, item.data)

(***************************************************************************)
(* The calls the host makes                                                *)
(***************************************************************************)
\* the most completions the model lets the user accept: the total of the
\* counters table above which getCompletionResolve is not called
MaxCount == 2

\* lines as the user is typing them, on line 0 of the first feature file
EditedLines == { <<"G", "i", "v", "e", "n", " ", "a", " ", "b", " ">>, <<"A", "n", "d", " ", "a", " ", "b">> }

\* every line of every feature file in its place, as (line, lineNumber,
\* text)
FeatureLines ==
    UNION { { [line |-> FeatureFiles[f][n], lineNumber |-> n - 1,
               text |-> FeatureFiles[f]] : n \in DOMAIN FeatureFiles[f] } :
            f \in DOMAIN FeatureFiles }

\* the (line, lineNumber, text) a query is called with: the lines of the
\* feature files that are steps or open a table, and the edited lines
Queries ==
    { q \in FeatureLines : q.line[1] # "|" }
    \cup { [line |-> e, lineNumber |-> 0, text |-> FeatureFiles["x.feature"]] :
             e \in EditedLines }

\* the (lineNumber, text) getStrictGherkinType is called with: every line
\* of every feature file, and the line after the last
Places ==
    UNION { { [lineNumber |-> n, text |-> FeatureFiles[f]] :
                n \in 0..Len(FeatureFiles[f]) } : f \in DOMAIN FeatureFiles }

\* the keywords getStrictGherkinType is called with
StrictKeywords == { <<"A", "n", "d">>, <<"B", "u", "t">>, <<"T", "h", "e", "n">> }

\* the handler of the current state
Handler == [impl |-> impl, settings |-> settings]

\* the sum of the counters table
RECURSIVE TotalCount(_)
TotalCount(counts) ==
    IF DOMAIN counts = {} THEN 0
    ELSE LET id == CHOOSE i \in DOMAIN counts : TRUE
         IN counts[id]
            + TotalCount([i \in DOMAIN counts \ {id} |-> counts[i]])

\* the client has not run scanAndGenerateStepsJson
NoScan == [pc |-> "idle"]

\* no setElementsHash call is on the stack
Idle == [pc |-> "idle", path |-> "", file |-> 0]

\* a host that could run a handler method inside a running pass
NeverRunning(p) == FALSE

\* setElementsHash is synchronous: from its reset of the table to the end
\* of its copy-back the call is on the stack, and no other method of the
\* handler starts before it returns
Running(p) == p.pc # "idle"

\* the state after new StepsHandler(root, settings)
Init ==
    /\ \E h \in Handlers : impl = h.impl /\ settings = h.settings
    /\ \E c \in { Constructor(Handler) } :
          /\ elements = c.elements
          /\ elementsHash = c.elementsHash
          /\ elemenstCountHash = c.elemenstCountHash
    /\ call = [op |-> "constructor"]
    /\ ret = Null
    /\ pass = Idle
    /\ scan = NoScan

\* populate(root, stepsPathes)
Populate(stepsPathes) ==
    /\ ~Running(pass)
    /\ \E p \in { populate(Handler, stepsPathes, elemenstCountHash) } :
          /\ elements' = p.elements
          /\ elementsHash' = p.elementsHash
    /\ call' = [op |-> "populate", stepsPathes |-> stepsPathes]
    /\ ret' = Null
    /\ UNCHANGED << scan, pass, impl, settings, elemenstCountHash >>

\* setElementsHash(path)
SetElementsHash(path) ==
    /\ ~Running(pass)
    /\ \E r \in { setElementsHash(elements, path) } :
          /\ elements' = r.elements
          /\ elemenstCountHash' = r.elemenstCountHash
    /\ call' = [op |-> "setElementsHash", path |-> path]
    /\ ret' = Null
    /\ UNCHANGED << scan, pass, impl, settings, elementsHash >>

\* validate(line, lineNum, text)
Validate(q) ==
    /\ ~Running(pass)
    /\ \E r \in { validate(Handler, elements, q.line, q.lineNumber, q.text) } :
          /\ ret' = r.result
          /\ elements' = r.elements
    /\ call' = [op |-> "validate", line |-> q.line,
                lineNumber |-> q.lineNumber, text |-> q.text]
    /\ UNCHANGED << scan, pass, impl, settings, elementsHash, elemenstCountHash >>

\* getDefinition(line, text)
GetDefinition(q) ==
    /\ ~Running(pass)
    /\ \E r \in { getDefinition(elements, q.line, q.text) } :
          /\ ret' = r.result
          /\ elements' = r.elements
    /\ call' = [op |-> "getDefinition", line |-> q.line, text |-> q.text]
    /\ UNCHANGED << scan, pass, impl, settings, elementsHash, elemenstCountHash >>

\* getStrictGherkinType(gherkinPart, lineNumber, text)
GetStrictGherkinType(gherkinPart, q) ==
    /\ ~Running(pass)
    /\ ret' = [null |-> FALSE,
               type |-> getStrictGherkinType(elements, gherkinPart,
                                             q.lineNumber, q.text)]
    /\ elements' = AfterGetStrictGherkinType(elements, gherkinPart,
                                             q.lineNumber, q.text)
    /\ call' = [op |-> "getStrictGherkinType", gherkinPart |-> gherkinPart,
                lineNumber |-> q.lineNumber, text |-> q.text]
    /\ UNCHANGED << scan, pass, impl, settings, elementsHash, elemenstCountHash >>

\* getCompletion(line, lineNumber, text)
GetCompletion(q) ==
    /\ ~Running(pass)
    /\ \E r \in { getCompletion(Handler, elements, q.line, q.lineNumber,
                                q.text) } :
          /\ ret' = r.result
          /\ elements' = r.elements
    /\ call' = [op |-> "getCompletion", line |-> q.line,
                lineNumber |-> q.lineNumber, text |-> q.text]
    /\ UNCHANGED << scan, pass, impl, settings, elementsHash, elemenstCountHash >>

\* getCompletionResolve(item), for the completion item of an indexed step
GetCompletionResolve(k) ==
    /\ ~Running(pass)
    /\ TotalCount(elemenstCountHash) < MaxCount
    /\ LET item == CompletionItem(elements[k])
       IN /\ elemenstCountHash' = getCompletionResolve(elemenstCountHash, item)
          /\ call' = [op |-> "getCompletionResolve", item |-> item]
          /\ ret' = [null |-> FALSE, item |-> item]
    /\ UNCHANGED << scan, pass, impl, settings, elements, elementsHash >>

Next ==
    \/ \E stepsPathes \in StepsPathes : Populate(stepsPathes)
    \/ \E path \in FeaturePaths : SetElementsHash(path)
    \/ \E q \in Queries : Validate(q)
    \/ \E q \in Queries : GetDefinition(q)
    \/ \E q \in Queries : GetCompletion(q)
    \/ \E k \in DOMAIN elements : GetCompletionResolve(k)

Spec == Init /\ [][Next]_vars

\* getStrictGherkinType called on its own, on a handler as constructed
NextStrict ==
    \E q \in Places, gherkinPart \in StrictKeywords :
        GetStrictGherkinType(gherkinPart, q)

SpecStrict == Init /\ [][NextStrict]_vars

(***************************************************************************)
(* Scenario outlines: getGherkinMatch on the lines of documents that hold  *)
(* one or two Examples: tables                                             *)
(***************************************************************************)
\* the names and the values of the tables
OutlineNames == { <<"n">>, <<"m">> }

OutlineValues == { <<"1">>, <<"b">> }

\* a table row with one cell
TableRow(cell) == <<"|", " ">> \o cell \o <<" ", "|">>

\* an Examples: table with one name and one value, and after it a step
\* line that uses the name
OutlineBlock(name, value) ==
    << ExamplesWord, TableRow(name), TableRow(value),
       <<"G", "i", "v", "e", "n", " ", "a", " ", "<">> \o name \o <<">">> >>

\* the documents getGherkinMatch is called on
OutlineDocuments ==
    { OutlineBlock(n, v) : n \in OutlineNames, v \in OutlineValues }
    \cup { OutlineBlock(n1, v1) \o OutlineBlock(n2, v2) :
             n1 \in OutlineNames, v1 \in OutlineValues,
             n2 \in OutlineNames, v2 \in OutlineValues }

\* getGherkinMatch(line, document) for line number i (1-based) of a document
GetGherkinMatch(document, i) ==
    /\ ~Running(pass)
    /\ ret' = [null |-> FALSE,
               match |-> getGherkinMatch(elements, document[i], document)]
    /\ elements' = AfterGetGherkinMatch(elements, document[i], document)
    /\ call' = [op |-> "getGherkinMatch", line |-> document[i],
                lineNumber |-> i - 1, text |-> document]
    /\ UNCHANGED << scan, pass, impl, settings, elementsHash, elemenstCountHash >>

NextOutline ==
    \E document \in OutlineDocuments : \E i \in DOMAIN document :
        GetGherkinMatch(document, i)

SpecOutline == Init /\ [][NextOutline]_vars

(***************************************************************************)
(* getSteps on its own: the steps of a template                            *)
(***************************************************************************)
\* the templates getSteps is called with
Templates ==
    { <<"a", " ", "b">>,
      <<"b">>,
      <<"a", " ", "b", " ", "c">>,
      <<"a", " ", "{", "i", "n", "t", "}">>,
      <<"a", " ", "{", "f", "l", "o", "a", "t", "}">>,
      <<"a", " ", "{", "w", "o", "r", "d", "}">>,
      <<"a", " ", "{", "s", "t", "r", "i", "n", "g", "I", "n", "D", "o", "u", "b", "l", "e", "Q", "u", "o", "t", "e", "s", "}">>,
      <<"a", " ", "{", "x", "}", " ", "c">>,
      <<"c", " ", "(", "x", "|", "y", ")">>,
      <<"c", " ", "(", "x", "|", "y", "|", "z", ")">>,
      <<"c", " ", "(", "x", "|", "x", "y", ")">>,
      <<"r", "u", "n", "(", "s", ")">>,
      <<"g", "o", " ", "u", "p", "/", "d", "o", "w", "n">>,
      <<"a", " ", "(">>,
      <<"c", " ", "(", "x", "|", "[", ")">>,
      <<"[", "a", " ", "b", "]">>,
      <<"^", "a", " ", "b", "$">>,
      <<"{", "i", "n", "t", "}", " ", "a">>,
      <<"(", "a", "|", "b", ")", " ", "c", " ", "(", "x", "|", "y", ")">>,
      <<"a", " ", "{", "i", "n", "t", "}", " ", "{", "i", "n", "t", "}">>,
      <<"a", " ", "+", "b">>,
      <<"(", "a", " ", "+", "b", "|", "[", ")">> }

\* getSteps(fullStepLine, stepPart, def, gherkin, comments) for a
\* definition on the first line of a.js
GetSteps(stepPart) ==
    /\ ~Running(pass)
    /\ ret' = [null |-> FALSE,
               steps |-> getSteps(Handler, stepPart,
                                  Location(Uri("", "a.js"), 0, 0), "Given",
                                  elemenstCountHash)]
    /\ call' = [op |-> "getSteps", stepPart |-> stepPart]
    /\ UNCHANGED << scan, pass, impl, settings, elements, elementsHash, elemenstCountHash >>

NextSteps == \E stepPart \in Templates : GetSteps(stepPart)

SpecSteps == Init /\ [][NextSteps]_vars

(***************************************************************************)
(* loadStepsFromJsonFiles on its own: the steps of the precomputed files   *)
(***************************************************************************)
\* the patterns of precomputed files: "gone.json" resolves to a file that
\* is no longer there, "none.js" to no file
JsonPatterns ==
    { "s.json", "t.json", "obj.json", "bad.json", "gone.json", "none.js", "*.json",
      "r/u.json" }

\* the longest list of patterns (no pattern twice in a list)
MaxJsonPaths == 2

JsonPathLists ==
    UNION { { l \in [1..n -> JsonPatterns] :
                \A i, j \in 1..n : l[i] = l[j] => i = j } :
            n \in 1..MaxJsonPaths }

\* loadStepsFromJsonFiles(jsonFilePaths), a method of the unnamed handler
LoadStepsFromJsonFiles(jsonFilePaths) ==
    /\ ~Running(pass)
    /\ impl = "unnamed"
    /\ ret' = [null |-> FALSE,
               steps |-> loadStepsFromJsonFiles(Handler, jsonFilePaths)]
    /\ call' = [op |-> "loadStepsFromJsonFiles", jsonFilePaths |-> jsonFilePaths]
    /\ UNCHANGED << scan, pass, impl, settings, elements, elementsHash, elemenstCountHash >>

NextJson == \E jsonFilePaths \in JsonPathLists : LoadStepsFromJsonFiles(jsonFilePaths)

SpecJson == Init /\ [][NextJson]_vars

(***************************************************************************)
(* getFileSteps on its own: the steps of a file's lines                    *)
(***************************************************************************)
\* the lines a step definition file is made of: a definition on one line,
\* the two halves of a definition split after "(", a line that matches
\* nothing but is a fit prefix of a definition, and an empty line
FileLines ==
    { <<"T", "h", "e", "n", "(", "'", "a", "'", ")">>,
      <<"T", "h", "e", "n", "(">>,
      <<"'", "b", "'", ")">>,
      <<"x", " ">>,
      << >> }

\* the longest file
MaxLines == 2

FileTexts == UNION { [1..n -> FileLines] : n \in 1..MaxLines }

\* getFileSteps(filePath) (gserver), getFileStepsFromSource(filePath)
\* (unnamed) for a file f.js with the given lines
GetFileSteps(lines) ==
    /\ ~Running(pass)
    /\ ret' = [null |-> FALSE,
               steps |-> FileStepsFrom(Handler, "f.js", clearComments(lines), 1,
                                       elemenstCountHash)]
    /\ call' = [op |-> "getFileSteps", lines |-> lines]
    /\ UNCHANGED << scan, pass, impl, settings, elements, elementsHash, elemenstCountHash >>

NextFile == \E lines \in FileTexts : GetFileSteps(lines)

SpecFile == Init /\ [][NextFile]_vars

(***************************************************************************)
(* setElementsHash statement by statement, with completions accepted       *)
(***************************************************************************)
\* setElementsHash(path), line 85: the table is reset; the files are next
SetElementsHashReset(path) ==
    /\ ~Running(pass)
    /\ elemenstCountHash' = << >>
    /\ pass' = [pc |-> "scan", path |-> path, file |-> 1]
    /\ call' = [op |-> "setElementsHash", path |-> path]
    /\ ret' = Null
    /\ UNCHANGED << scan, impl, settings, elements, elementsHash >>

\* lines 86-98: one turn of files.forEach
SetElementsHashFile ==
    /\ pass.pc = "scan"
    /\ pass.file <= Len(GlobSync[pass.path])
    /\ elemenstCountHash' =
           CountLines(elements, FeatureFiles[GlobSync[pass.path][pass.file]], 1,
                      elemenstCountHash)
    /\ pass' = [pass EXCEPT !.file = pass.file + 1]
    /\ UNCHANGED << scan, impl, settings, elements, elementsHash, call, ret >>

\* line 99: the counts are copied to the elements, and the call returns
SetElementsHashCopy ==
    /\ pass.pc = "scan"
    /\ pass.file > Len(GlobSync[pass.path])
    /\ elements' = [k \in DOMAIN elements |->
                       [elements[k] EXCEPT
                           !.count = getElementCount(elemenstCountHash,
                                                     elements[k].id)]]
    /\ pass' = Idle
    /\ UNCHANGED << scan, impl, settings, elementsHash, elemenstCountHash, call, ret >>

NextSched ==
    \/ \E path \in FeaturePaths : SetElementsHashReset(path)
    \/ SetElementsHashFile
    \/ SetElementsHashCopy
    \/ \E k \in DOMAIN elements : GetCompletionResolve(k)

SpecSched == Init /\ [][NextSched]_vars

(***************************************************************************)
(* getRegTextForStep and getTextForStep on their own: a template to its    *)
(* pattern text and back                                                   *)
(***************************************************************************)
\* the built-in placeholders
BuiltInParameters ==
    { <<"i", "n", "t">>,
      <<"f", "l", "o", "a", "t">>,
      <<"w", "o", "r", "d">>,
      <<"s", "t", "r", "i", "n", "g">>,
      <<"s", "t", "r", "i", "n", "g", "I", "n", "D", "o", "u", "b", "l", "e", "Q", "u", "o", "t", "e", "s">> }

\* 'I have {p}'
IHave(p) == <<"I", " ", "h", "a", "v", "e", " ">> \o Braced(p)

\* the templates converted: 'I have {p}' for the built-in placeholders, and
\* the templates getSteps is called with
TextTemplates == { IHave(p) : p \in BuiltInParameters } \cup Templates

\* getRegTextForStep(step)
GetRegTextForStep(step) ==
    /\ ~Running(pass)
    /\ ret' = [null |-> FALSE, text |-> getRegTextForStep(Handler, step)]
    /\ call' = [op |-> "getRegTextForStep", step |-> step]
    /\ UNCHANGED << scan, pass, impl, settings, elements, elementsHash, elemenstCountHash >>

\* getTextForStep(step), for the pattern text getRegTextForStep returned
GetTextForStep ==
    /\ ~Running(pass)
    /\ call.op = "getRegTextForStep"
    /\ ret' = [null |-> FALSE, text |-> getTextForStep(ret.text)]
    /\ call' = [op |-> "getTextForStep", step |-> ret.text, template |-> call.step]
    /\ UNCHANGED << scan, pass, impl, settings, elements, elementsHash, elemenstCountHash >>

NextText ==
    \/ \E step \in TextTemplates : GetRegTextForStep(step)
    \/ GetTextForStep

SpecText == Init /\ [][NextText]_vars

(***************************************************************************)
(* getCompletionInsertText: what a completion inserts                      *)
(***************************************************************************)
\* isParameterExpression(word) of the unnamed handler and the test
\* originalWord.startsWith('{') && originalWord.endsWith('}') of the gserver
\* one: the settings of the model configure no parameterSymbols
isParameterExpression(word) ==
    Len(word) > 0 /\ word[1] = "{" /\ word[Len(word)] = "}"

RECURSIVE MatchingWordsCount(_, _, _)
\* the loop that counts the words matching from the beginning, from word i
\* on (1-based): a parameter expression and an equal word count and go on;
\* a word the last typed word starts counts and ends the loop; any other
\* word ends it
MatchingWordsCount(originalStepParts, stepPartWords, i) ==
    IF i > Len(originalStepParts) \/ i > Len(stepPartWords) THEN 0
    ELSE IF isParameterExpression(originalStepParts[i])
    THEN 1 + MatchingWordsCount(originalStepParts, stepPartWords, i + 1)
    ELSE IF toLowerCase(originalStepParts[i]) = toLowerCase(stepPartWords[i])
    THEN 1 + MatchingWordsCount(originalStepParts, stepPartWords, i + 1)
    ELSE IF /\ i = Len(stepPartWords)
            /\ StartsAt(toLowerCase(originalStepParts[i]),
                        toLowerCase(stepPartWords[i]), 1)
    THEN 1
    ELSE 0

\* parts.filter(part => part.length > 0) in the unnamed handler, the parts
\* as they are in the gserver one
InsertTextParts(h, parts) ==
    IF h.impl = "unnamed" THEN SelectSeq(parts, LAMBDA part : Len(part) > 0)
    ELSE parts

\* the branch without smartSnippets (no settings of the model set it):
\* res.replace(/"\[\^"\]\+"/g, '""').replace(/\.\*/g, '{}');
\* applyParameterSymbols of the unnamed handler changes nothing without
\* parameterSymbols
CleanInsertText(res) ==
    ReplaceAll(ReplaceAll(res, StringInDoubleQuotesPattern, <<"\"", "\"">>),
               AnyPattern, <<"{", "}">>)

\* getCompletionInsertText(step, stepPart): the unnamed handler puts both
\* through handleCustomParameters first
getCompletionInsertText(h, step, stepPart) ==
    LET Rest(originalStepParts, stepPartWords) ==
            CleanInsertText(
                Join(Sub(originalStepParts,
                         MatchingWordsCount(originalStepParts, stepPartWords, 1) + 1,
                         Len(originalStepParts) + 1),
                     <<" ">>))
        Text(transformedStep, transformedStepPart) ==
            IF h.settings.pureTextSteps
            THEN IF StartsAt(toLowerCase(transformedStep),
                             toLowerCase(transformedStepPart), 1)
                 THEN Trim(Sub(transformedStep, Len(transformedStepPart) + 1,
                               Len(transformedStep) + 1))
                 ELSE transformedStep
            ELSE Rest(InsertTextParts(h, SplitOn(transformedStep, " ")),
                      InsertTextParts(h, SplitOn(Trim(transformedStepPart), " ")))
    IN IF h.impl = "unnamed"
       THEN Text(handleCustomParameters(h, step),
                 handleCustomParameters(h, stepPart))
       ELSE Text(step, stepPart)

\* the texts of the steps a completion is asked for
InsertSteps ==
    { <<"a">>,
      <<"a", " ", "b">>,
      <<"a", " ", "b", " ", "c">>,
      <<"b", " ", "c">>,
      <<"a", " ", "{", "i", "n", "t", "}", " ", "c">>,
      <<"a", " ", ".", "*", " ", "c">> }

\* what is typed after the keyword, before getCompletion drops its last word
TypedParts ==
    { << >>,
      <<"a">>,
      <<"a", " ">>,
      <<"a", " ", "b">>,
      <<"a", " ", "b", " ">>,
      <<"a", " ", "b", " ", "c", " ">>,
      <<"A", " ", "B", " ">>,
      <<"a", " ", "1", " ">>,
      <<"b", " ", "x">>,
      <<"x", " ">> }

\* getCompletionInsertText(step.text, stepPart), with the stepPart of
\* getCompletion: stepPartBase.replace(/[^\s]+$/, '')
GetCompletionInsertText(step, stepPartBase) ==
    /\ ~Running(pass)
    /\ ret' = [null |-> FALSE,
               text |-> getCompletionInsertText(Handler, step,
                                                StripLastWord(stepPartBase))]
    /\ call' = [op |-> "getCompletionInsertText", step |-> step,
                stepPart |-> StripLastWord(stepPartBase)]
    /\ UNCHANGED << scan, pass, impl, settings, elements, elementsHash, elemenstCountHash >>

NextInsert ==
    \E step \in InsertSteps : \E stepPartBase \in TypedParts :
        GetCompletionInsertText(step, stepPartBase)

SpecInsert == Init /\ [][NextInsert]_vars

(***************************************************************************)
(* getPartialRegParts on its own: the tokens of a compiled text            *)
(***************************************************************************)
\* templates with spaces inside groups, nested groups and runs of spaces,
\* besides the templates getSteps is called with
PartsTemplates ==
    Templates \cup
    { <<"a", " ", "(", "b", " ", "c", ")", " ", "d">>,
      <<"a", " ", "(", "b", " ", "(", "c", " ", "d", ")", " ", "e", ")", " ", "f">>,
      <<"(", "a", " ", "b", ")">>,
      <<"(", "(", "a", " ", "b", ")", " ", "c", ")", " ", "d", " ", "(", "e", " ", "f", ")">>,
      <<"a", " ", "(", "b", " ", "c", "|", "d", " ", "e", ")", " ", "f">>,
      <<"a", "(", "b", " ", "c", ")", "d", " ", "e">>,
      <<"(", "a", " ", "b", ")", "(", "c", " ", "d", ")", " ", "e">>,
      <<"a", " ", " ", "b">>,
      <<"a", " ">>,
      <<"a", " ", "(", "?", ":", "b", " ", "c", ")", " ", "d">> }

\* getPartialRegParts(text)
GetPartialRegParts(text) ==
    /\ ~Running(pass)
    /\ ret' = [null |-> FALSE, parts |-> getPartialRegParts(Handler, text)]
    /\ call' = [op |-> "getPartialRegParts", text |-> text,
                compiled |-> RegTextOf(Handler, text)]
    /\ UNCHANGED << scan, pass, impl, settings, elements, elementsHash, elemenstCountHash >>

NextParts == \E text \in PartsTemplates : GetPartialRegParts(text)

SpecParts == Init /\ [][NextParts]_vars

(***************************************************************************)
(* The two builders of steps side by side: getSteps and the loader of the  *)
(* precomputed records                                                     *)
(***************************************************************************)
NextFallback == NextSteps \/ NextJson

SpecFallback == Init /\ [][NextFallback]_vars

(***************************************************************************)
(* The two variants of an outline line: getGherkinMatch on documents with  *)
(* one Examples: table                                                     *)
(***************************************************************************)
\* the values of the tables: one more than OutlineValues, which no step of
\* the source files is written for
VariantValues == OutlineValues \cup { <<"z">> }

\* the documents: one table and a step line that uses its name
VariantDocuments ==
    { OutlineBlock(n, v) : n \in OutlineNames, v \in VariantValues }

NextVariants ==
    \E document \in VariantDocuments : \E i \in DOMAIN document :
        GetGherkinMatch(document, i)

SpecVariants == Init /\ [][NextVariants]_vars

(***************************************************************************)
(* The index in json mode: handlers configured with other precomputed      *)
(* files, populate with step globs that match no, one or several files     *)
(***************************************************************************)
\* the state after new StepsHandler(root, settings) in json mode
InitRecords ==
    /\ \E h \in RecordHandlers : impl = h.impl /\ settings = h.settings
    /\ \E c \in { Constructor(Handler) } :
          /\ elements = c.elements
          /\ elementsHash = c.elementsHash
          /\ elemenstCountHash = c.elemenstCountHash
    /\ call = [op |-> "constructor"]
    /\ ret = Null
    /\ pass = Idle
    /\ scan = NoScan

\* the lists of step globs: those of StepsPathes, and one that matches no
\* file
RecordStepsPathes == StepsPathes \cup { << "none.js" >>, << "a.js" >> }

NextRecords ==
    \/ \E stepsPathes \in RecordStepsPathes : Populate(stepsPathes)
    \/ \E path \in FeaturePaths : SetElementsHash(path)
    \/ \E k \in DOMAIN elements : GetCompletionResolve(k)

SpecRecords == InitRecords /\ [][NextRecords]_vars

(***************************************************************************)
(* getStepTextInvariants on its own: the variants of a template            *)
(***************************************************************************)
\* the templates: no group, one group, several groups side by side, a
\* group with an empty branch, with branches that hold a "$", one group
\* inside another
InvariantTemplates ==
    { <<"a">>,
      <<"a", " ", "b">>,
      <<"(", "a", "|", "b", ")">>,
      <<"(", "a", "|", "b", ")", " ", "c">>,
      <<"a", " ", "(", "b", "|", "c", ")">>,
      <<"(", "a", "|", "b", ")", " ", "(", "c", "|", "d", ")">>,
      <<"(", "a", "|", "b", "|", "c", ")", " ", "x", " ", "(", "d", "|", "e", ")">>,
      <<"(", "a", "|", "b", ")", " ", "(", "a", "|", "b", ")">>,
      <<"(", "?", ":", "a", "|", "b", ")", " ", "c">>,
      <<"(", "a", "|", "|", "b", ")">>,
      <<"a", " ", "(", "b", ")", " ", "(", "c", "|", "d", ")">>,
      <<"(", "a", "|", "b", ")", "(", "c", "|", "d", ")", "(", "e", "|", "f", ")">>,
      <<"i", "t", "e", "m", "(", "s", "|", ")">>,
      <<"(", "|", "a", ")", " ", "b">>,
      <<"(", "a", "|", "$", "&", ")">>,
      <<"(", "$", "$", "|", "b", ")">>,
      <<"(", "a", "|", "b", "$", "'", ")", "c">>,
      <<"(", "a", "|", "b", "|", "c", "|", "d", ")">>,
      <<"x", " ", "(", "a", "|", "b", ")", " ", "y", " ", "(", "c", "|", "d", ")", " ", "z">>,
      <<"a", "|", "b">>,
      <<"(", "a", ")">>,
      <<"(", "a", " ", "b", "|", "c", " ", "d", ")", " ", "e">>,
      <<"(", "(", "a", "|", "b", ")", "|", "c", ")">> }

\* getStepTextInvariants(step)
GetStepTextInvariants(step) ==
    /\ ~Running(pass)
    /\ \E r \in { InvariantsWithin(step, MaxStack) } :
          ret' = [null |-> FALSE, threw |-> r.threw, variants |-> r.value]
    /\ call' = [op |-> "getStepTextInvariants", step |-> step]
    /\ UNCHANGED << scan, pass, impl, settings, elements, elementsHash, elemenstCountHash >>

NextInvariants == \E step \in InvariantTemplates : GetStepTextInvariants(step)

SpecInvariants == Init /\ [][NextInvariants]_vars

(***************************************************************************)
(* The client: scanAndGenerateStepsJson (src/gclient/src/extension.ts)     *)
(***************************************************************************)
\* if (fileSizeMB > 2)
SkipSizeMB == 2

\* content.trim().length < 10
MinContentLength == 10

\* the step definition files of the workspace, by path relative to the
\* workspace root: size is stats.size (statSync throws when stat is FALSE),
\* content what readFileSync returns (it throws when readable is FALSE)
ScanFile(path, stat, size, readable, content) ==
    [path |-> path, stat |-> stat, size |-> size, readable |-> readable,
     content |-> content]

ScanFiles ==
    { ScanFile(<<"s", "r", "c", "/", "a", ".", "s", "t", "e", "p", "s", ".", "t", "s">>, TRUE, 100, TRUE, <<"G", "i", "v", "e", "n", "(", "'", "a", " ", "b", "'", ")">>),
      ScanFile(<<"s", "r", "c", "/", "a", ".", "t", "s">>, TRUE, 100, TRUE, <<"G", "i", "v", "e", "n", "(", "'", "a", " ", "b", "'", ")">>),
      ScanFile(<<"l", "i", "b", "/", "b", ".", "j", "s">>, TRUE, SkipSizeMB * 1024 * 1024, TRUE, <<"W", "h", "e", "n", "(", "'", "c", " ", "d", " ", "e", "'", ")">>),
      ScanFile(<<"b", "i", "g", ".", "j", "s">>, TRUE, SkipSizeMB * 1024 * 1024 + 1, TRUE, <<"W", "h", "e", "n", "(", "'", "c", " ", "d", " ", "e", "'", ")">>),
      ScanFile(<<"s", "h", "o", "r", "t", ".", "j", "s">>, TRUE, 7, TRUE, <<" ", " ", "x", " ", "y", " ", " ">>),
      ScanFile(<<"s", "p", "a", "c", "e", "d", ".", "j", "s">>, TRUE, 11, TRUE, <<"a", " ", "b", " ", "c", " ", "d", " ", "e", " ", "f">>),
      ScanFile(<<"g", "o", "n", "e", ".", "j", "s">>, FALSE, 0, FALSE, << >>),
      ScanFile(<<"l", "o", "c", "k", "e", "d", ".", "j", "s">>, TRUE, 100, FALSE, << >>) }

\* the longest list of matched files
MaxScanFiles == 2

\* allStepFiles: the files the configured globs resolve to, in order; a
\* file that two globs match is there twice
ScanFileLists == UNION { [1..n -> ScanFiles] : n \in 0..MaxScanFiles }

\* what callAIForSingleFileExtraction settles with: a rejection, or an
\* array of 0, 1 or 2 steps
AIAnswers ==
    { [rejected |-> TRUE, steps |-> 0] }
    \cup { [rejected |-> FALSE, steps |-> n] : n \in 0..2 }

\* the text after the last "/" of a path
Basename(p) ==
    LET Slashes == { k \in DOMAIN p : p[k] = "/" }
    IN IF Slashes = {} THEN p
       ELSE SubSeq(p, (CHOOSE k \in Slashes : \A j \in Slashes : j <= k) + 1, Len(p))

\* path.parse(p).name: the base name without its last extension
ParsedName(p) ==
    LET Dots == { k \in 2..Len(Basename(p)) : Basename(p)[k] = "." }
    IN IF Dots = {} THEN Basename(p)
       ELSE SubSeq(Basename(p), 1, (CHOOSE k \in Dots : \A j \in Dots : j <= k) - 1)

\* s.endsWith(suffix)
EndsWith(s, suffix) ==
    /\ Len(suffix) <= Len(s)
    /\ SubSeq(s, Len(s) - Len(suffix) + 1, Len(s)) = suffix

\* generateJsonFileName(sourceFilePath, workspaceRoot), relative to the
\* workspace root
generateJsonFileName(sourceFilePath) ==
    LET baseName == IF EndsWith(ParsedName(sourceFilePath), <<".", "s", "t", "e", "p", "s">>)
                    THEN SubSeq(ParsedName(sourceFilePath), 1,
                                Len(ParsedName(sourceFilePath)) - 6)
                    ELSE ParsedName(sourceFilePath)
    IN <<".", "v", "s", "c", "o", "d", "e", "/", "s", "t", "e", "p", "C", "o", "n", "f", "i", "g", "/">> \o baseName \o <<".", "s", "t", "e", "p", "s", ".", "j", "s", "o", "n">>

\* a run that ends at the first file that fails
AbortRun(s, kind) ==
    [s EXCEPT !.pc = "done",
              !.events = Append(@, [file |-> s.i, kind |-> kind, steps |-> 0])]

\* the run after file i is done with, with what became of it: the loop
\* goes on to the next file (continue, the end of the body, or the catch)
ContinueLoop(s, kind) ==
    [s EXCEPT !.pc = "loop", !.i = @ + 1,
              !.events = Append(@, [file |-> s.i, kind |-> kind, steps |-> 0])]

\* lines 21-51: the checks before the loop; the run throws without a token
\* or without files
ScanStart(token, files) ==
    /\ scan.pc = "idle"
    /\ scan' = IF ~token \/ Len(files) = 0
               THEN [pc |-> "thrown"]
               ELSE [pc |-> "loop", files |-> files, i |-> 1,
                     generatedFiles |-> << >>, totalSteps |-> 0,
                     events |-> << >>, disk |-> << >>]
    /\ UNCHANGED << pass, impl, settings, elements, elementsHash,
                    elemenstCountHash, call, ret >>

\* lines 54-79: the body of the loop for file i up to the await
ScanRead ==
    /\ scan.pc = "loop"
    /\ scan.i <= Len(scan.files)
    /\ LET f == scan.files[scan.i]
       IN scan' =
            IF ~f.stat THEN ContinueLoop(scan, "statError")
            ELSE IF f.size > SkipSizeMB * 1024 * 1024 THEN ContinueLoop(scan, "large")
            ELSE IF ~f.readable THEN ContinueLoop(scan, "readError")
            ELSE IF Len(Trim(f.content)) = 0
                    \/ Len(Trim(f.content)) < MinContentLength
            THEN ContinueLoop(scan, "short")
            ELSE [scan EXCEPT !.pc = "await"]
    /\ UNCHANGED << pass, impl, settings, elements, elementsHash,
                    elemenstCountHash, call, ret >>

\* lines 79-103: the AI call settles; a non-empty array is written to the
\* file generateJsonFileName names, unless the write throws
ScanAnswer(answer, writes) ==
    /\ scan.pc = "await"
    /\ LET path == generateJsonFileName(scan.files[scan.i].path)
           Written(s) ==
               [s EXCEPT !.generatedFiles = Append(@, path),
                         !.totalSteps = @ + answer.steps,
                         !.events[Len(s.events)].steps = answer.steps,
                         !.disk = [p \in DOMAIN s.disk \cup {path} |->
                                     IF p = path
                                     THEN [source |-> scan.i, steps |-> answer.steps]
                                     ELSE s.disk[p]]]
       IN scan' =
            IF answer.rejected THEN ContinueLoop(scan, "rejected")
            ELSE IF answer.steps = 0 THEN ContinueLoop(scan, "empty")
            ELSE IF ~writes THEN ContinueLoop(scan, "writeError")
            ELSE Written(ContinueLoop(scan, "written"))
    /\ UNCHANGED << pass, impl, settings, elements, elementsHash,
                    elemenstCountHash, call, ret >>

\* line 106: return { totalSteps, generatedFiles }
ScanReturn ==
    /\ scan.pc = "loop"
    /\ scan.i > Len(scan.files)
    /\ scan' = [scan EXCEPT !.pc = "done"]
    /\ UNCHANGED << pass, impl, settings, elements, elementsHash,
                    elemenstCountHash, call, ret >>

NextScan ==
    \/ \E token \in BOOLEAN, files \in ScanFileLists : ScanStart(token, files)
    \/ ScanRead
    \/ \E answer \in AIAnswers, writes \in BOOLEAN : ScanAnswer(answer, writes)
    \/ ScanReturn

SpecScan == Init /\ [][NextScan]_vars

(***************************************************************************)
(* The claims                                                              *)
(***************************************************************************)
\* the index of the state: what validation must leave alone
Index == << elements, elementsHash, elemenstCountHash >>

\* the step-content of a validated line has no matching step: no indexed
\* step's full pattern matches it, among the steps of the resolved type
\* when strict validation is on
NoStepFor(line, lineNumber, text) ==
    LET match == getGherkinMatch(elements, line, text)
    IN \A k \in DOMAIN elements :
          \/ /\ settings.strictGherkinValidation
             /\ elements[k].gherkin #
                  getStrictGherkinType(elements, match.m2, lineNumber, text)
          \/ ~RegExpTest(elements[k].reg, match.m4)

\* C1: validate returns a warning exactly when the line (its trailing
\* white space dropped) has Gherkin shape and no indexed step, of the
\* resolved type under strict validation, matches its step-content; it
\* returns null otherwise.  Stated for every handler source.
C1_ValidateWarnsExactlyOnUnmatched ==
    call.op = "validate" =>
        LET line == RTrim(call.line)
        IN ret.null <=>
             ~(/\ getGherkinMatch(elements, line, call.text).ok
               /\ NoStepFor(line, call.lineNumber, call.text))

\* C2: a call of validate leaves the index as it was, and a call that
\* repeats the one before it returns what that one returned
C2_ValidateIdempotent ==
    [][call'.op = "validate" =>
          /\ Index' = Index
          /\ (call' = call => ret' = ret)]_vars

\* C2's case: validate has returned a warning over a non-empty index
C2_Witness ==
    /\ call.op = "validate"
    /\ ~ret.null
    /\ Len(elements) > 1

\* every step the files of the globs yield, in processing order: glob by
\* glob, file by file, line by line, variant by variant
ExtractedSteps(stepsPathes) ==
    LET files == GlobFiles(stepsPathes)
    IN Concat([k \in DOMAIN files |->
                  getFileSteps(Handler, files[k], elemenstCountHash)])

\* the place in a sequence of steps of the first one with the id
FirstWithId(steps, id) ==
    CHOOSE j \in DOMAIN steps :
        steps[j].id = id /\ \A i \in 1..(j - 1) : steps[i].id # id

\* C3: no two indexed steps have the same id; and after populate the index
\* holds, for every id extraction produced, the first step produced with
\* that id, the ids in the order they were first produced
C3_FirstOccurrenceWins ==
    /\ \A i, j \in DOMAIN elements :
          i # j => elements[i].id # elements[j].id
    /\ call.op = "populate" =>
          LET all == ExtractedSteps(call.stepsPathes)
          IN /\ IdsOf(elements) = IdsOf(all)
             /\ elementsHash = IdsOf(all)
             /\ \A k \in DOMAIN elements :
                   elements[k] = all[FirstWithId(all, elements[k].id)]
             /\ \A k, l \in DOMAIN elements :
                   k < l => FirstWithId(all, elements[k].id)
                              < FirstWithId(all, elements[l].id)

\* C3's case: populate has skipped a step whose id was already present,
\* and the skipped step differs from the one kept
C3_Witness ==
    /\ call.op = "populate"
    /\ LET all == ExtractedSteps(call.stepsPathes)
       IN \E j \in DOMAIN all :
             /\ FirstWithId(all, all[j].id) < j
             /\ all[j] # all[FirstWithId(all, all[j].id)]

\* C4: getCompletionResolve of an item makes the count of the indexed step
\* with the item's id one greater, so that its completion item is ranked
\* with the greater count, and leaves every other step's count as it was
C4_AcceptIncrementsStepCount ==
    [][call'.op = "getCompletionResolve" =>
          /\ DOMAIN elements' = DOMAIN elements
          /\ \A k \in DOMAIN elements :
                IF elements[k].id = call'.item.data
                THEN /\ elements'[k].count = elements[k].count + 1
                     /\ CompletionItem(elements'[k]).sortText
                          = SortText([elements[k] EXCEPT !.count = @ + 1])
                ELSE elements'[k].count = elements[k].count]_vars

\* the lines setElementsHash(path) scans, as <<file, line number>>
ScannedLines(path) ==
    LET files == GlobSync[path]
    IN UNION { { << files[i], n >> : n \in DOMAIN FeatureFiles[files[i]] } :
               i \in DOMAIN files }

\* the Gherkin match of a scanned line
ScannedMatch(l) ==
    getGherkinMatch(elements, FeatureFiles[l[1]][l[2]], FeatureFiles[l[1]])

\* C5 as stated: after setElementsHash every step's count is the number of
\* scanned lines of Gherkin shape whose step-content its full pattern
\* matches
C5_CountIsNumberOfMatchingLines ==
    call.op = "setElementsHash" =>
        \A k \in DOMAIN elements :
            elements[k].count =
                Cardinality({ l \in ScannedLines(call.path) :
                                /\ ScannedMatch(l).ok
                                /\ RegExpTest(elements[k].reg, ScannedMatch(l).m4) })

\* C5 amended: after setElementsHash, whatever the counters were, every
\* step's count is the number of scanned lines of Gherkin shape whose
\* step-content its full pattern matches and no earlier step's does; the
\* counters table holds these counts for the steps that have one
C5_CountIsNumberOfLinesMatchedFirst ==
    call.op = "setElementsHash" =>
        /\ \A k \in DOMAIN elements :
              elements[k].count =
                  Cardinality({ l \in ScannedLines(call.path) :
                      /\ ScannedMatch(l).ok
                      /\ RegExpTest(elements[k].reg, ScannedMatch(l).m4)
                      /\ \A j \in 1..(k - 1) :
                            ~RegExpTest(elements[j].reg, ScannedMatch(l).m4) })
        /\ DOMAIN elemenstCountHash
             = { elements[k].id : k \in { j \in DOMAIN elements :
                                            elements[j].count > 0 } }
        /\ \A k \in DOMAIN elements :
              elements[k].count > 0 =>
                  elemenstCountHash[elements[k].id] = elements[k].count

\* C5's case: setElementsHash has counted two lines for one step, and has
\* left at 0 a step whose pattern matches a line counted for an earlier one
C5_Witness ==
    /\ call.op = "setElementsHash"
    /\ \E k \in DOMAIN elements : elements[k].count >= 2
    /\ \E k \in DOMAIN elements :
          /\ elements[k].count = 0
          /\ \E l \in ScannedLines(call.path) :
                /\ ScannedMatch(l).ok
                /\ RegExpTest(elements[k].reg, ScannedMatch(l).m4)

\* C6: but for setElementsHash, no operation makes the count of a step
\* that stays indexed smaller, or greater by more than one
C6_CountMovesByOne ==
    [][call'.op # "setElementsHash" =>
          \A k \in DOMAIN elements, l \in DOMAIN elements' :
              elements'[l].id = elements[k].id =>
                  elements'[l].count \in
                      { elements[k].count, elements[k].count + 1 }]_vars

\* the lines before lineNumber of the text that have Gherkin shape with a
\* keyword Given, When or Then (1-based)
MainLinesBefore(lineNumber, text) ==
    { i \in 1..Len(text) :
        /\ i <= lineNumber
        /\ getGherkinMatch(elements, text[i], text).ok
        /\ getGherkinTypeLower(getGherkinMatch(elements, text[i], text).m2)
             \in MainTypes }

\* C7: getStrictGherkinType of And or But is the type of the nearest line
\* before lineNumber that has Gherkin shape and a keyword Given, When or
\* Then, and Other when there is none; of another keyword it is the
\* keyword's own type
C7_StrictTypeIsNearestMainType ==
    call.op = "getStrictGherkinType" =>
        LET P == MainLinesBefore(call.lineNumber, call.text)
            last == CHOOSE i \in P : \A j \in P : j <= i
        IN ret.type =
             IF getGherkinType(call.gherkinPart) \notin {"And", "But"}
             THEN getGherkinType(call.gherkinPart)
             ELSE IF P = {} THEN "Other"
             ELSE getGherkinTypeLower(
                      getGherkinMatch(elements, call.text[last], call.text).m2)

\* C7's case: in a document Given / When / And the third line resolves to
\* When, past the Given line
C7_Witness ==
    /\ call.op = "getStrictGherkinType"
    /\ call.gherkinPart = <<"A", "n", "d">>
    /\ call.lineNumber = 2
    /\ call.text = FeatureFiles["x.feature"]
    /\ ret.type = "When"

\* the step part of getCompletion, said without the replace: the longest
\* start of the step-content that is empty or ends in white space
BeforeLastWord(content) ==
    LET P == { n \in 0..Len(content) :
                 n = 0 \/ content[n] \in WhiteSpace }
    IN SubSeq(content, 1, CHOOSE n \in P : \A m \in P : m <= n)

\* the indexed steps that pass both filters of a getCompletion call
Passing(line, lineNumber, text) ==
    LET match == getGherkinMatch(elements, line, text)
    IN { k \in DOMAIN elements :
           /\ settings.strictGherkinCompletion =>
                 elements[k].gherkin =
                     getStrictGherkinType(elements, match.m2, lineNumber, text)
           /\ RegExpTest(elements[k].partialReg, BeforeLastWord(match.m4)) }

\* the i-th smallest member of a set of numbers
Nth(K, i) == CHOOSE k \in K : Cardinality({ j \in K : j < k }) = i - 1

\* C8: getCompletion returns null for a line without Gherkin shape and
\* when no step passes the filters; else one item per passing step, in
\* index order, its data the step's id and its label the step's text
C8_CompletionIsThePassingSteps ==
    call.op = "getCompletion" =>
        LET K == Passing(call.line, call.lineNumber, call.text)
        IN IF ~getGherkinMatch(elements, call.line, call.text).ok \/ K = {}
           THEN ret.null
           ELSE /\ ~ret.null
                /\ Len(ret.items) = Cardinality(K)
                /\ \A i \in DOMAIN ret.items :
                      /\ ret.items[i].data = elements[Nth(K, i)].id
                      /\ ret.items[i].label = elements[Nth(K, i)].text
                      /\ ret.items[i].data \in elementsHash

\* C8's case: getCompletion has returned some of the steps, not all
C8_Witness ==
    /\ call.op = "getCompletion"
    /\ ~ret.null
    /\ Len(ret.items) >= 2
    /\ Len(ret.items) < Len(elements)

\* the greatest count the order of the sort prefixes is checked for
MaxSortCount == 60

\* of any two counts the greater has the smaller prefix; a count of 5
\* sorts before a count of 1
PrefixesDescend ==
    /\ \A m, n \in 0..MaxSortCount :
          m > n => StrLess(getSortPrefix(m, SortPrefixWidth),
                           getSortPrefix(n, SortPrefixWidth))
    /\ StrLess(getSortPrefix(5, SortPrefixWidth), getSortPrefix(1, SortPrefixWidth))

\* the indexed step a completion item was made of
StepOfItem(item) ==
    elements[CHOOSE k \in DOMAIN elements : elements[k].id = item.data]

ValidateLookup(line0, n, text) ==
    LET line == RTrim(line0)
        match == getGherkinMatch(elements, line, text)
    IN IF ~match.ok THEN 0
       ELSE getStepByText(elements, match.m4,
                          IF settings.strictGherkinValidation
                          THEN getStrictGherkinType(elements, match.m2, n, text)
                          ELSE Undefined)

\* C10 as stated: getDefinition returns a location exactly when validate's
\* lookup on the line finds a step, and the location is that step's
C10_DefinitionIsValidateLookup ==
    call.op = "getDefinition" =>
        \A n \in 0..Len(call.text) :
            LET found == ValidateLookup(call.line, n, call.text)
            IN /\ ret.null <=> found = 0
               /\ ~ret.null => ret.def = elements[found].def

\* the number of the nearest Examples: line before line i of the document
\* that a header row and a data row follow; 0 when there is none
NearestExamples(document, i) ==
    LET J == { j \in 1..(i - 1) :
                 IsExamplesLine(document[j]) /\ j + 2 <= Len(document) }
    IN IF J = {} THEN 0 ELSE CHOOSE j \in J : \A k \in J : k <= j

\* name -> value by column index, from the table nearest before line i
NearestVars(document, i) ==
    LET j == NearestExamples(document, i)
    IN IF j = 0 THEN << >>
       ELSE AssignVars(<< >>, Slice1(SplitCells(document[j + 1])),
                       Slice1(SplitCells(document[j + 2])), 1)

\* line i with each <name> replaced by its value in the nearest table
\* before the line, between quotes q
NearestSubstituted(document, i, q) ==
    LET outlineMatch == OutlineMatchFrom(document[i], 1)
    IN SubstituteOutline(document[i],
                         [k \in DOMAIN outlineMatch |->
                             StripAngles(outlineMatch[k])],
                         1, NearestVars(document, i), q)

\* C11: the match getGherkinMatch returns for a line with <name>
\* placeholders is the match of the line with each placeholder replaced by
\* its value in the nearest Examples: table before the line, as it stands
\* or between double quotes
C11_OutlineUsesNearestTable ==
    (call.op = "getGherkinMatch" /\ Len(OutlineMatchFrom(call.line, 1)) > 0)
        => ret.match \in
             { getGherkinRegExMatch(
                   NearestSubstituted(call.text, call.lineNumber + 1, q)) :
                 q \in { << >>, <<"\"">> } }

\* the lines the steps of a template are tried on
TriedLines ==
    { <<"a", " ", "b">>,
      <<"x", " ", "a", " ", "b">>,
      <<"a", " ", "b", " ", "y">>,
      <<"b">>,
      <<"a", " ", "b", " ", "c">>,
      <<"a", " ", "1">>,
      <<"a", " ", "-", "1">>,
      <<"a", " ", "1", ".", "5">>,
      <<"a", " ", "x">>,
      <<"a", " ", "\"", "b", " ", "c", "\"">>,
      <<"a", " ", "x", " ", "y", " ", "c">>,
      <<"c", " ", "x">>,
      <<"c", " ", "y">>,
      <<"c", " ", "z">>,
      <<"c", " ", "x", "y">>,
      <<"r", "u", "n">>,
      <<"r", "u", "n", "s">>,
      <<"g", "o", " ", "u", "p">>,
      <<"g", "o", " ", "d", "o", "w", "n">>,
      <<"1", " ", "a">>,
      <<"a", " ", "1", " ", "2">>,
      <<"a", " ", "c", " ", "x">>,
      <<"b", " ", "c", " ", "y">> }

\* the non-empty prefixes of a line that end at a token boundary: before a
\* space, after a space, or at the end of the line
TokenPrefixes(line) ==
    { SubSeq(line, 1, k) : k \in { j \in 1..Len(line) :
                                      \/ j = Len(line)
                                      \/ line[j] = " "
                                      \/ line[j + 1] = " " } }

\* C12: for every step getSteps makes of a template and every line its
\* full pattern matches, the step's partial pattern matches every
\* non-empty prefix of the line that ends at a token boundary
C12_PartialMatchesTokenPrefixes ==
    call.op = "getSteps" =>
        \A k \in DOMAIN ret.steps : \A line \in TriedLines :
            RegExpTest(ret.steps[k].reg, line) =>
                \A prefix \in TokenPrefixes(line) :
                    RegExpTest(ret.steps[k].partialReg, prefix)

(* The source of a pattern starts with ^ and ends with a $ that no backslash
   escapes. *)
AnchoredSource(source) ==
    /\ Len(source) >= 2
    /\ source[1] = "^"
    /\ source[Len(source)] = "$"
    /\ source[Len(source) - 1] # "\\"

\* C14: the full pattern of every step getSteps builds, in expression mode as
\* in pure-text mode, is anchored at both ends, so that a line which a step
\* matches is no longer matched once a word is put in front of it.
C14_FullPatternAnchored ==
    call.op = "getSteps" =>
        \A k \in DOMAIN ret.steps :
            /\ AnchoredSource(ret.steps[k].reg.source)
            /\ \A line \in TriedLines :
                   RegExpTest(ret.steps[k].reg, line)
                       => ~RegExpTest(ret.steps[k].reg, <<"z", "z", " ">> \o line)

(* A template with one alternation group: one "(" and one ")" after it, a
   "|" between the two, and branches made of word characters. *)
GroupOpen(template) == IndexOfChar(template, "(", 1)

GroupClose(template) == IndexOfChar(template, ")", 1)

OneAlternationGroup(template) ==
    /\ Cardinality({ i \in DOMAIN template : template[i] = "(" }) = 1
    /\ Cardinality({ i \in DOMAIN template : template[i] = ")" }) = 1
    /\ GroupOpen(template) < GroupClose(template)
    /\ \E i \in (GroupOpen(template) + 1)..(GroupClose(template) - 1) :
           template[i] = "|"
    /\ \A i \in (GroupOpen(template) + 1)..(GroupClose(template) - 1) :
           template[i] \in WordChars \cup {"|"}

\* the template with its group replaced by each branch in turn
BranchTexts(template) ==
    LET branches == SplitOn(Sub(template, GroupOpen(template) + 1,
                                GroupClose(template)), "|")
    IN [j \in DOMAIN branches |->
            Sub(template, 1, GroupOpen(template)) \o branches[j]
                \o Sub(template, GroupClose(template) + 1, Len(template) + 1)]

\* C13: with stepsInvariants on, a template with one alternation group of n
\* branches gives exactly n steps, and the full pattern of the k-th step
\* matches the text of the k-th branch and the text of no other branch.
C13_OneStepPerBranch ==
    (/\ call.op = "getSteps"
     /\ settings.stepsInvariants
     /\ OneAlternationGroup(call.stepPart))
        => /\ Len(ret.steps) = Len(BranchTexts(call.stepPart))
           /\ \A k \in DOMAIN ret.steps :
                  \A j \in DOMAIN BranchTexts(call.stepPart) :
                      RegExpTest(ret.steps[k].reg, BranchTexts(call.stepPart)[j])
                          <=> j = k

(* The variants getSteps was called to build, and the full and partial
   pattern texts of a variant under the settings of the handler. *)
CalledVariants ==
    IF settings.stepsInvariants THEN getStepTextInvariants(call.stepPart)
    ELSE << call.stepPart >>

FullCompiles(step) == NewRegExp(RegTextOf(Handler, step)).ok

PartialCompiles(step) == NewRegExp(getPartialRegText(Handler, step)).ok

\* a step of the result was built from the variant
IndexedFrom(step) ==
    \E k \in DOMAIN ret.steps :
        ret.steps[k].reg.source = RegTextOf(Handler, step)

\* C15 (as stated): a variant whose full or partial pattern does not compile
\* is not among the steps getSteps returns.
C15_UncompilableExcluded ==
    call.op = "getSteps" =>
        \A j \in DOMAIN CalledVariants :
            (~FullCompiles(CalledVariants[j]) \/ ~PartialCompiles(CalledVariants[j]))
                => ~IndexedFrom(CalledVariants[j])

\* C15 (amended): getSteps returns, in order, one step for each variant whose
\* full pattern compiles and none for the others; every pattern of a step is
\* a compiled one, the partial pattern being the full pattern when the
\* partial text does not compile.
C15_FullFailureExcludesPartialFallsBack ==
    call.op = "getSteps" =>
        LET kept == SelectSeq(CalledVariants, FullCompiles)
        IN /\ ret.null = FALSE
           /\ Len(ret.steps) = Len(kept)
           /\ \A k \in DOMAIN ret.steps :
                  /\ ret.steps[k].reg.ok
                  /\ ret.steps[k].reg.source = RegTextOf(Handler, kept[k])
                  /\ ret.steps[k].partialReg.ok
                  /\ IF PartialCompiles(kept[k])
                     THEN ret.steps[k].partialReg.source
                              = getPartialRegText(Handler, kept[k])
                     ELSE ret.steps[k].partialReg = ret.steps[k].reg

\* the variant "a +b" is kept with its full pattern as partial pattern while
\* the variant "[" of the same template is left out
C15_Witness ==
    /\ call.op = "getSteps"
    /\ call.stepPart = <<"(", "a", " ", "+", "b", "|", "[", ")">>
    /\ settings.stepsInvariants
    /\ Len(CalledVariants) = 2
    /\ Len(ret.steps) = 1
    /\ ~PartialCompiles(CalledVariants[1])
    /\ ~FullCompiles(CalledVariants[2])
    /\ ret.steps[1].partialReg = ret.steps[1].reg

(* The records of each pattern's files that have a text which compiles:
   the file and the 0-based index in it. *)
LoadableRecords ==
    [p \in JsonPatterns |->
        CASE p = "s.json" ->
               << <<"s.json", 0>>, <<"s.json", 3>>, <<"s.json", 4>> >>
          [] p = "t.json" -> << <<"t.json", 0>> >>
          [] p = "*.json" ->
               << <<"s.json", 0>>, <<"s.json", 3>>, <<"s.json", 4>>, <<"t.json", 0>> >>
          [] p = "r/u.json" ->
               << <<"r/u.json", 0>>, <<"r/u.json", 3>>, <<"r/u.json", 4>> >>
          [] OTHER -> << >>]

\* where the loaded records come from, file by file in the order asked
ExpectedOrigins(jsonFilePaths) ==
    Concat([k \in DOMAIN jsonFilePaths |-> LoadableRecords[jsonFilePaths[k]]])

\* C16: loadStepsFromJsonFiles returns, for the files in the order asked,
\* one step for each record that has a text and a pattern that compiles,
\* in record order: a record without text or with an uncompilable pattern is
\* left out alone, and a file that is missing, unparsable or no array gives
\* no step and stops nothing.
C16_JsonLoadingIsolatesErrors ==
    call.op = "loadStepsFromJsonFiles" =>
        /\ ret.null = FALSE
        /\ [k \in DOMAIN ret.steps |->
               << ret.steps[k].def.uri.path, ret.steps[k].def.line >>]
             = ExpectedOrigins(call.jsonFilePaths)
        /\ \A k \in DOMAIN ret.steps :
               ret.steps[k].reg.ok /\ Len(ret.steps[k].text) > 0

\* an unparsable file, then a glob of an unparsable file, a file that is no
\* array, the file with two bad records and a good file
C16_Witness ==
    /\ call.op = "loadStepsFromJsonFiles"
    /\ call.jsonFilePaths = << "bad.json", "*.json" >>
    /\ Len(ret.steps) = 4
    /\ ret.steps[2].def.line = 3
    /\ ret.steps[4].def.uri.path = "t.json"

(* The match the extractor is to use for line i (1-based) of the lines: the
   line alone if it matches; else the line with the next one, if and only
   if the two together match and the next one alone does not. *)
CoalescedMatch(lines, i) ==
    LET next == IF i < Len(lines) THEN lines[i + 1] ELSE << >>
    IN IF geStepDefinitionMatch(lines[i]).ok
       THEN geStepDefinitionMatch(lines[i])
       ELSE IF /\ geStepDefinitionMatch(lines[i] \o next).ok
               /\ ~geStepDefinitionMatch(next).ok
       THEN geStepDefinitionMatch(lines[i] \o next)
       ELSE NoMatch

\* the steps line i is to give, located at line index i - 1
CoalescedSteps(lines, i) ==
    IF CoalescedMatch(lines, i).ok
    THEN getSteps(Handler, CoalescedMatch(lines, i).m4,
                  Location(Uri("", "f.js"), i - 1, Len(CoalescedMatch(lines, i).m1)),
                  getGherkinTypeLower(CoalescedMatch(lines, i).m2),
                  elemenstCountHash)
    ELSE << >>

\* C17: the steps of a file are, line by line, the steps of the line's own
\* match when the line alone matches, else those of the match of the line
\* with the next one exactly when the two together match and the next one
\* alone does not, else none; the steps of line i are located at line i.
C17_MultiLineCoalescing ==
    call.op = "getFileSteps" =>
        /\ ret.steps = Concat([i \in DOMAIN call.lines |-> CoalescedSteps(call.lines, i)])
        /\ \A k \in DOMAIN ret.steps :
               \E i \in DOMAIN call.lines :
                   /\ ret.steps[k].def.line = i - 1
                   /\ CoalescedMatch(call.lines, i).ok

\* a definition split over two lines gives one step, located at the first
C17_Witness ==
    /\ call.op = "getFileSteps"
    /\ call.lines = << <<"T", "h", "e", "n", "(">>, <<"'", "b", "'", ")">> >>
    /\ Len(ret.steps) = 1
    /\ ret.steps[1].def.line = 0
    /\ ret.steps[1].gherkin = "Then"
    /\ ~geStepDefinitionMatch(call.lines[1]).ok
    /\ ~geStepDefinitionMatch(call.lines[2]).ok

C19_PlaceholderRoundTrip ==
    (/\ call.op = "getTextForStep"
     /\ call.template \in { IHave(p) : p \in BuiltInParameters })
        => ret.text = call.template

(* A template of words without placeholders, and the typed prefix made of
   its first k words: each followed by a space, as getCompletion leaves
   them when it drops the last word. *)
PlainWords(step) ==
    /\ \A i \in DOMAIN step : step[i] \in WordChars \cup {" "}
    /\ \A i \in DOMAIN SplitOn(step, " ") : Len(SplitOn(step, " ")[i]) > 0

FirstWords(words, k) ==
    IF k = 0 THEN << >> ELSE Join(Sub(words, 1, k + 1), <<" ">>) \o <<" ">>

\* C20: in expression mode, for a template of plain words of which the
\* typed prefix is the first k whole words, the insertion text is the rest
\* of the words joined by single spaces: the whole template for k = 0.
C20_InsertTextIsRemainder ==
    (/\ call.op = "getCompletionInsertText"
     /\ ~settings.pureTextSteps
     /\ PlainWords(call.step))
        => \A k \in 0..Len(SplitOn(call.step, " ")) :
               call.stepPart = FirstWords(SplitOn(call.step, " "), k)
                   => ret.text = Join(Sub(SplitOn(call.step, " "), k + 1,
                                          Len(SplitOn(call.step, " ")) + 1),
                                      <<" ">>)

(* Parentheses: the depth of a text after its first i characters, and a
   text whose parentheses are balanced. *)
ParenDepth(text, i) ==
    Cardinality({ j \in 1..i : text[j] = "(" })
        - Cardinality({ j \in 1..i : text[j] = ")" })

BalancedParens(text) ==
    /\ \A i \in 0..Len(text) : ParenDepth(text, i) >= 0
    /\ ParenDepth(text, Len(text)) = 0

\* the position in the joined text of the space after token j
BoundaryAfter(parts, j) ==
    Len(Join(Sub(parts, 1, j + 1), <<" ">>)) + 1

RecordFullText(stepData) ==
    IF Len(stepData.matchText) > 0 THEN stepData.matchText
    ELSE IF Len(stepData.regText) > 0 THEN stepData.regText
    ELSE stepData.text

\* a record with a text whose full pattern compiles and whose partial
\* pattern, the one made of its text, does not
RecordFallsBack(stepData) ==
    /\ "text" \in stepData.has
    /\ Len(stepData.text) > 0
    /\ NewRegExp(RecordFullText(stepData)).ok
    /\ ~NewRegExp(getPartialRegText(Handler, stepData.text)).ok

\* record number index (0-based) of the file is among the steps returned,
\* with its full pattern as partial pattern
RecordIndexedWithFullAsPartial(f, index) ==
    \E k \in DOMAIN ret.steps :
        /\ ret.steps[k].def.uri.path = f
        /\ ret.steps[k].def.line = index
        /\ ret.steps[k].reg.source = RecordFullText(JsonFiles[f].records[index + 1])
        /\ ret.steps[k].partialReg = ret.steps[k].reg

\* the files the patterns asked for resolve to
CalledFiles == GlobFiles(call.jsonFilePaths)

\* C22: a step whose partial pattern does not compile while its full pattern
\* does is among the steps built, with its full pattern as its partial
\* pattern, both when getSteps builds it from a template and when
\* loadStepsFromJsonFiles builds it from a precomputed record.
C22_PartialFailureKeepsStep ==
    /\ call.op = "getSteps" =>
           \A j \in DOMAIN CalledVariants :
               (FullCompiles(CalledVariants[j]) /\ ~PartialCompiles(CalledVariants[j]))
                   => \E k \in DOMAIN ret.steps :
                          /\ ret.steps[k].reg.source = RegTextOf(Handler, CalledVariants[j])
                          /\ ret.steps[k].partialReg = ret.steps[k].reg
    /\ call.op = "loadStepsFromJsonFiles" =>
           \A n \in DOMAIN CalledFiles :
               CalledFiles[n] \in DOMAIN JsonFiles =>
                   \A i \in DOMAIN JsonFiles[CalledFiles[n]].records :
                       RecordFallsBack(JsonFiles[CalledFiles[n]].records[i])
                           => RecordIndexedWithFullAsPartial(CalledFiles[n], i - 1)

\* the match of the called line with its outline variables put in as they
\* stand
RawVariant == OutlineLineMatch(call.line, call.text, << >>)

\* the match of the called line with its outline variables put in between
\* double quotes
QuotedVariant == OutlineLineMatch(call.line, call.text, <<"\"">>)

\* the step content of a match is matched by the full pattern of a step of
\* the index
KnownStep(m) ==
    /\ m.ok
    /\ Len(m.m4) > 0
    /\ \E k \in DOMAIN elements : StepRegTest(elements[k], m.m4)

\* C23: for a line with <name> placeholders getGherkinMatch returns the
\* match of the quoted variant when only that variant's step content matches
\* a known step, the match of the raw variant when only the raw one does or
\* when neither does, and the match of one of the two when both do.
C23_VariantOfKnownStep ==
    (call.op = "getGherkinMatch" /\ Len(OutlineMatchFrom(call.line, 1)) > 0) =>
        /\ ret.match \in { RawVariant, QuotedVariant }
        /\ (KnownStep(QuotedVariant) /\ ~KnownStep(RawVariant))
               => ret.match = QuotedVariant
        /\ ~KnownStep(QuotedVariant) => ret.match = RawVariant

\* a line whose quoted variant is the only known one, returned between
\* quotes
C23_Witness ==
    /\ call.op = "getGherkinMatch"
    /\ call.line = <<"G", "i", "v", "e", "n", " ", "a", " ", "<", "n", ">">>
    /\ KnownStep(QuotedVariant)
    /\ ~KnownStep(RawVariant)
    /\ ret.match = QuotedVariant
    /\ ret.match.m4 = <<"a", " ", "\"", "z", "\"">>
    /\ ret.match # RawVariant

\* the index: the list of steps with their patterns and counts, the id set
\* and the counters table
IndexFields == << elements, elementsHash, elemenstCountHash >>

\* the answer the query named by a call record gives on a list of steps
QueryResult(c, els) ==
    IF c.op = "getDefinition" THEN getDefinition(els, c.line, c.text).result
    ELSE getCompletion(Handler, els, c.line, c.lineNumber, c.text).result

\* C24: a getCompletion or getDefinition call leaves the list of steps
\* (patterns and counts included), the id set and the counters table as they
\* were, and the same call made on the index it leaves behind returns the
\* same answer, so the queries can be interleaved in any order.
C24_QueriesLeaveIndexUnchanged ==
    [][call'.op \in {"getCompletion", "getDefinition"} =>
           /\ IndexFields' = IndexFields
           /\ ret' = QueryResult(call', elements)
           /\ QueryResult(call', elements') = ret']_vars

\* a completion has been answered with items, on an index with counts
C24_Witness ==
    /\ call.op = "getCompletion"
    /\ ~ret.null
    /\ Len(ret.items) >= 2
    /\ \E k \in DOMAIN elements : elements[k].count > 0
    /\ elemenstCountHash # << >>

\* C25: the count of every step of the index is a non-negative integer,
\* whether the step was built from a source file or from a precomputed
\* record, whatever count the record carries.
C25_CountsNonNegative ==
    \A k \in DOMAIN elements : elements[k].count \in Nat

\* C26: the count of every step of the index is the entry of the counters
\* table for the step's id, 0 when the table has none.
C26_CountIsTableEntry ==
    \A k \in DOMAIN elements :
        elements[k].count = getElementCount(elemenstCountHash, elements[k].id)

\* the closing parenthesis of the group that opens at a; 0 when it is not
\* closed
GroupEnd(t, a) ==
    LET B == { b \in (a + 1)..Len(t) :
                 t[b] = ")" /\ ParenDepth(t, b) = ParenDepth(t, a) - 1 }
    IN IF B = {} THEN 0 ELSE CHOOSE b \in B : \A c \in B : b <= c

\* the "|" that separate the branches of the group that opens at a
GroupBars(t, a) ==
    { k \in (a + 1)..(GroupEnd(t, a) - 1) :
        t[k] = "|" /\ ParenDepth(t, k) = ParenDepth(t, a) }

\* the alternation groups of a template, by the place of their "("
AlternationGroups(t) ==
    { a \in DOMAIN t : t[a] = "(" /\ GroupEnd(t, a) # 0 /\ GroupBars(t, a) # {} }

\* no group inside another
NonNested(t) ==
    /\ BalancedParens(t)
    /\ \A i \in 0..Len(t) : ParenDepth(t, i) <= 1

RECURSIVE BranchProduct(_, _)
\* the product of the numbers of branches of the groups in A
BranchProduct(t, A) ==
    IF A = {} THEN 1
    ELSE LET a == CHOOSE x \in A : TRUE
         IN (Cardinality(GroupBars(t, a)) + 1) * BranchProduct(t, A \ {a})

\* C27: getStepTextInvariants returns; for a template whose alternation
\* groups are not nested it returns as many variants as the product of the
\* groups' branch counts, none with an alternation group left; and each
\* template it calls itself on has fewer alternation groups than the
\* template it was called on.
C27_InvariantsTerminateAndMultiply ==
    call.op = "getStepTextInvariants" =>
        /\ ~ret.threw
        /\ NonNested(call.step) =>
               /\ Len(ret.variants)
                    = BranchProduct(call.step, AlternationGroups(call.step))
               /\ \A k \in DOMAIN ret.variants :
                      AlternationGroups(ret.variants[k]) = {}
        /\ \A k \in DOMAIN InvariantsCalls(call.step) :
               Cardinality(AlternationGroups(InvariantsCalls(call.step)[k]))
                   < Cardinality(AlternationGroups(call.step))

RECURSIVE FirstOfEachId(_, _)
\* the steps of a list whose id no earlier step of the list has, from
\* step k on
FirstOfEachId(steps, k) ==
    IF k > Len(steps) THEN << >>
    ELSE (IF \E j \in 1..(k - 1) : steps[j].id = steps[k].id THEN << >>
          ELSE << steps[k] >>)
         \o FirstOfEachId(steps, k + 1)

\* C28: in json mode the index populate builds is made of the records of
\* the configured precomputed files, the first record of each id, whatever
\* the step globs resolve to.
C28_JsonIndexIgnoresSourceGlobs ==
    (call.op = "populate" /\ settings.stepsSource = "json") =>
        /\ elements
             = FirstOfEachId(
                   loadStepsFromJsonFiles(Handler, settings.stepsJsonFiles), 1)
        /\ elementsHash = { elements[k].id : k \in DOMAIN elements }

\* a run of scanAndGenerateStepsJson is in its loop or has returned
ScanRuns == scan.pc \in {"loop", "await", "done"}

\* the AI call was made for the file of an event
AICalled(e) == e.kind \in {"rejected", "empty", "writeError", "written"}

\* the events of the files that were written, in order
WrittenEvents == SelectSeq(scan.events, LAMBDA e : e.kind = "written")

RECURSIVE SumOfSteps(_, _)
SumOfSteps(events, k) ==
    IF k > Len(events) THEN 0
    ELSE events[k].steps + SumOfSteps(events, k + 1)

\* the number of characters of a text that are not white space
NonBlankCount(content) ==
    Cardinality({ k \in DOMAIN content : content[k] \notin WhiteSpace })

\* the files are done with one at a time, in order, whatever fails; the
\* paths returned are those of the files written, in order, and totalSteps
\* is the sum of the lengths of the arrays written
ScanIsolatesFailures ==
    /\ Len(scan.events) = scan.i - 1
    /\ \A k \in DOMAIN scan.events : scan.events[k].file = k
    /\ scan.pc = "done" => Len(scan.events) = Len(scan.files)
    /\ scan.generatedFiles
         = [k \in DOMAIN WrittenEvents |->
               generateJsonFileName(scan.files[WrittenEvents[k].file].path)]
    /\ scan.totalSteps = SumOfSteps(WrittenEvents, 1)
    /\ \A k \in DOMAIN WrittenEvents : WrittenEvents[k].steps >= 1
    /\ \A k \in DOMAIN scan.events :
           scan.events[k].steps # 0 => scan.events[k].kind = "written"

\* C29 (as stated): failures are isolated and the result is that of the
\* files written; a file that can be read and is larger than 2 MB or has
\* fewer than 10 characters that are not white space gets no AI call.
C29_SkipsByNonBlankCount ==
    ScanRuns =>
        /\ ScanIsolatesFailures
        /\ \A k \in DOMAIN scan.events :
               LET f == scan.files[k]
               IN (/\ f.stat
                   /\ \/ f.size > SkipSizeMB * 1024 * 1024
                      \/ f.readable /\ NonBlankCount(f.content) < MinContentLength)
                      => ~AICalled(scan.events[k])

\* C29 (amended): failures are isolated and the result is that of the
\* files written; a file that can be read and is larger than 2 MB, or whose
\* content without the white space at its two ends is shorter than 10
\* characters, gets no AI call.
C29_SkipsByTrimmedLength ==
    ScanRuns =>
        /\ ScanIsolatesFailures
        /\ \A k \in DOMAIN scan.events :
               LET f == scan.files[k]
               IN (/\ f.stat
                   /\ \/ f.size > SkipSizeMB * 1024 * 1024
                      \/ f.readable /\ Len(Trim(f.content)) < MinContentLength)
                      => ~AICalled(scan.events[k])

\* a run over a file that cannot be stat'ed and then one that is written
\* with two steps has returned
C29_Witness ==
    /\ scan.pc = "done"
    /\ Len(scan.files) = 2
    /\ scan.events[1].kind = "statError"
    /\ scan.events[2].kind = "written"
    /\ Len(scan.generatedFiles) = 1
    /\ scan.totalSteps = 2

\* the number of files of the run written to a path
WritesTo(path) ==
    Cardinality({ k \in DOMAIN scan.events :
                    /\ scan.events[k].kind = "written"
                    /\ generateJsonFileName(scan.files[k].path) = path })

\* C30: within one run no generated file overwrites another: source files
\* of different paths get different output paths, no path occurs twice in
\* generatedFiles, and every file on disk was written for one source file
\* only.
C30_NoGeneratedFileOverwritten ==
    ScanRuns =>
        /\ \A j, k \in DOMAIN scan.files :
               scan.files[j].path # scan.files[k].path
                   => generateJsonFileName(scan.files[j].path)
                        # generateJsonFileName(scan.files[k].path)
        /\ \A j, k \in DOMAIN scan.generatedFiles :
               j # k => scan.generatedFiles[j] # scan.generatedFiles[k]
        /\ \A path \in DOMAIN scan.disk : WritesTo(path) = 1

====
